---- MODULE Spec2Model ----
(***************************************************************************)
(* Parts of dagster, each a state machine with a specification of its own  *)
(* over its own variables; the variables of the other parts rest.          *)
(*                                                                         *)
(*   Spec           the backfill daemon of dagster/_daemon/backfill.py     *)
(*   FreshnessSpec  the time-partition freshness check of                  *)
(*                  freshness_checks/time_partition.py                     *)
(*   MetadataSpec   NamespacedMetadataSet of metadata/metadata_set.py      *)
(*   EvaluatorSpec  the evaluation tick of declarative scheduling          *)
(*   ConditionSpec  the scheduling conditions and their evaluation         *)
(*   CacheSpec      cached_method on a DagsterModel                        *)
(*   LinksSpec      with_source_code_links of metadata/source_code.py      *)
(*   TableSpec      TableMetadataValue of metadata/metadata_value.py       *)
(*   NopeSpec       NopeProject.make_assets_defs of _nope/project.py       *)
(*                                                                         *)
(* The daemon process runs passes of execute_backfill_iteration over the   *)
(* persisted backfill rows.  Every call on a collaborator (the instance's  *)
(* get_backfills / get_backfill / update_backfill, the per-backfill        *)
(* iteration helper) is a step of its own, so that an external actor, a    *)
(* run finishing, a failure of the call or a crash of the process can fall *)
(* between any two of them.                                                *)
(*                                                                         *)
(* execute_asset_backfill_iteration / execute_job_backfill_iteration are   *)
(* imported by backfill.py and are not part of the sources at hand: the    *)
(* Iter* actions model them from section 4.5 of the specification.         *)
(***************************************************************************)
EXTENDS Integers, Sequences, FiniteSets, TLC

\* ------------------------------------------------------------- bounds
NumBackfills == 2
NumPartitions == 2
\* collaborator calls that raise, over a whole behaviour
MaxFaults == 2
\* crashes of the daemon process, over a whole behaviour
MaxCrashes == 1
\* passes of execute_backfill_iteration the daemon starts, over a whole behaviour
MaxPasses == 2

Ids == 1..NumBackfills
\* the target partitions of a backfill: the first backfill has NumPartitions, the others one
Targets(b) == 1..(IF b = 1 THEN NumPartitions ELSE 1)

\* ------------------------------------------------------------- values
\* BulkActionStatus
REQUESTED == "REQUESTED"
CANCELING == "CANCELING"
CANCELED == "CANCELED"
COMPLETED == "COMPLETED"
COMPLETED_WITH_FAILURES == "COMPLETED_WITH_FAILURES"
FAILED == "FAILED"

Terminal == {COMPLETED, COMPLETED_WITH_FAILURES, FAILED, CANCELED}

\* what a cursor records of a target partition, and the states of a run
NotRequested == "none"
InFlight == "inflight"
Succeeded == "success"
RunFailed == "failure"
RunTerminal == {Succeeded, RunFailed}

\* "no error" and "no backfill"; an error record is identified by the id of
\* the backfill whose iteration raised it
None == 0
NoRow == [status |-> "", cursor |-> <<>>, error |-> None]

VARIABLES
    store,                  \* persisted PartitionBackfill rows, by backfill_id
    runs,                   \* run launcher: runs[b][p] = states of the runs requested for (b, p), oldest first
    pc,                     \* where the daemon is in the pass
    in_progress_backfills,  \* line 20
    backfill_jobs,          \* line 28: the rows listed at the start of the pass
    idx,                    \* position of the for loop of line 43 in backfill_jobs
    backfill,               \* line 47: the refetched row
    cursor,                 \* the iteration helper's working cursor
    pending,                \* partition whose run was requested and is not yet in the persisted cursor
    yielded,                \* what the pass has yielded so far (None or an error record)
    escaped,                \* the call whose exception left execute_backfill_iteration ("" if none)
    iterated,               \* history: ids the iteration helper was called for in this pass, in order
    raisedAt,               \* history: positions of backfill_jobs whose iteration raised in this pass
    cancelRequested,        \* history: ids whose cancellation an external actor has persisted
    faults,
    crashes,
    passes

daemonVars == <<store, runs, pc, in_progress_backfills, backfill_jobs, idx, backfill, cursor,
                pending, yielded, escaped, iterated, raisedAt, cancelRequested, faults, crashes, passes>>

\* ------------------------------------------------ the freshness check set
\* TimePartitionFreshnessCheckSet of asset_check_factories/freshness_checks/
\* time_partition.py: its state is further down, with its actions
VARIABLES
    now,                        \* the wall clock, in seconds (pendulum.now of line 93 reads it)
    records,                    \* the instance's materialization / observation records
    fpc,                        \* where the builder / execute() is
    checks_def,                 \* what build_time_partition_freshness_checks returned
    selected_asset_check_keys,  \* line 91: the assets whose checks this execution selects, in order
    key_idx,                    \* position of the for loop of line 91
    current_timestamp,          \* line 93
    deadline,                   \* line 100
    expected_partition_key,     \* line 109
    passed,                     \* line 115
    results,                    \* the AssetCheckResults execute() has yielded
    raised                      \* the error that ended the builder or execute() ("" if none)

freshVars == <<now, records, fpc, checks_def, selected_asset_check_keys, key_idx,
               current_timestamp, deadline, expected_partition_key, passed, results, raised>>

\* ------------------------------------------------ the namespaced metadata set
\* NamespacedMetadataSet of metadata/metadata_set.py
VARIABLES
    namespace,      \* what namespace() of the subclass returns
    fields,         \* the instance: the value of each field
    metadata,       \* a metadata dictionary
    extracted,      \* what extract(metadata) returned
    mpc             \* what has been done with the instance

metaVars == <<namespace, fields, metadata, extracted, mpc>>

\* ------------------------------------------------ the scheduling evaluator
\* the evaluation tick of section 4.4 of the specification
VARIABLES
    snapshot,       \* the assets that have a materialization / observation record
    eval_cursor,    \* the persisted EvaluationCursor of each asset
    request_set,    \* the tick's request set
    evaluated,      \* the assets whose condition tree this tick has evaluated
    errored,        \* the assets whose evaluation raised in this tick
    ticks           \* the number of the tick

evalVars == <<snapshot, eval_cursor, request_set, evaluated, errored, ticks>>

\* ------------------------------------------------ one condition tree
\* the evaluation of a condition tree for one asset (sections 4.2, 4.3),
\* against the snapshot and the request set above
VARIABLES
    condition,      \* the tree that was constructed (NoCondition before)
    target,         \* the asset it is evaluated for
    truth           \* <<truth value>> once evaluated

condVars == <<condition, target, truth>>

\* ------------------------------------------------ cached methods of a model
\* the CoolModel instances of test_cached_method (test_dagster_model.py)
VARIABLES
    attrs,          \* the attributes of each instance, by attribute name
    allocated,      \* the number of objects the method bodies have made
    calls,          \* history: the calls made and what each returned
    dumped          \* <<m.dict()>> of the instance it was last taken of

cacheVars == <<attrs, allocated, calls, dumped>>

\* ------------------------------------------------ source code links
\* with_source_code_links of metadata/source_code.py
VARIABLES
    assets_defs,    \* the definitions given to with_source_code_links
    linked,         \* <<what it returned>>
    relinked        \* <<what it returned when given that result>>

linkVars == <<assets_defs, linked, relinked>>

\* ------------------------------------------------ table metadata values
\* TableMetadataValue.__init__ of metadata/metadata_value.py
VARIABLES
    table_records,  \* the records argument
    table_schema,   \* the schema argument
    table           \* <<the value constructed, or the error raised>>

tableVars == <<table_records, table_schema, table>>

\* ------------------------------------------------ nope projects
\* NopeProject.make_assets_defs of _nope/project.py
VARIABLES
    defs_path,      \* the entries of the directory given as defs_path
    made            \* <<what make_assets_defs returned, or the error it raised>>

nopeVars == <<defs_path, made>>

\* the variables of the parts that follow the evaluator
laterVars == <<condVars, cacheVars, linkVars, tableVars, nopeVars>>

\* the variables of the components other than the backfill daemon
others == <<freshVars, metaVars, evalVars, laterVars>>

vars == <<daemonVars, others>>

passLocals == <<in_progress_backfills, backfill_jobs, idx, backfill, cursor, pending,
                yielded, escaped, iterated, raisedAt>>

\* ------------------------------------------------------------- helpers
RECURSIVE Ascending(_)
Ascending(S) ==
    IF S = {} THEN <<>>
    ELSE LET m == CHOOSE x \in S : \A y \in S : x <= y
         IN <<m>> \o Ascending(S \ {m})

\* faulty variant of get_backfills: the listing also returns the FAILED rows
get_backfills_or_failed(status) ==
    LET ids == Ascending({b \in Ids : store[b].status \in {status, FAILED}})
    IN [i \in 1..Len(ids) |-> [backfill_id |-> ids[i], status |-> status]]

\* instance.get_backfills(status=...): the rows with that status, in storage order
get_backfills(status) ==
    LET ids == Ascending({b \in Ids : store[b].status = status})
    IN [i \in 1..Len(ids) |-> [backfill_id |-> ids[i], status |-> status]]

\* faulty variant of refetch: the iteration runs on the row of the pass's listing
listed_row(backfill_id) == [store[backfill_id] EXCEPT !.status = backfill_jobs[idx].status]

\* instance.get_backfill(backfill_id) of line 47
refetch(backfill_id) == store[backfill_id]

with_status(row, status) == [row EXCEPT !.status = status]
with_error(row, error) == [row EXCEPT !.error = error]

\* DaemonErrorCapture.on_exception: the record of the error raised for this backfill
on_exception(backfill_id) == backfill_id

\* faulty variant of listed_jobs: the CANCELING rows come first
canceling_first(in_progress, canceling) == canceling \o in_progress

\* line 28: [*in_progress_backfills, *canceling_backfills]
listed_jobs(in_progress, canceling) == in_progress \o canceling

\* the id the loop of line 43 is at
CurrentId == backfill_jobs[idx].backfill_id

PassEnded == pc \in {"done", "raised"}

\* line 43: on to the next listed row; the refetched copy and the helper's
\* working cursor are not read again
LeaveIteration ==
    /\ idx' = idx + 1
    /\ pc' = "loop"
    /\ backfill' = NoRow
    /\ cursor' = NoRow.cursor

\* ------------------------------------------------ the components at rest
\* "no record" (retrieve_latest_record returned None), "no deadline",
\* "no partition key"
NoRecord == [asset_key |-> "", partition_key |-> -1, timestamped |-> FALSE]
NoTime == -1
NoKey == -1
\* what the builder has returned before it is called
NoChecks == [deadline_cron |-> "", timezone |-> ""]

\* the state of one execution of execute() before its loop of line 91 starts
FreshnessLocalsAtRest ==
    /\ selected_asset_check_keys = <<>>
    /\ key_idx = 0
    /\ current_timestamp = NoTime
    /\ deadline = NoTime
    /\ expected_partition_key = NoKey
    /\ passed = FALSE
    /\ results = <<>>
    /\ raised = ""

\* ------------------------------------------------------------- Init
DaemonInit ==
    /\ store = [b \in Ids |-> [status |-> REQUESTED,
                               cursor |-> [p \in Targets(b) |-> NotRequested],
                               error |-> None]]
    /\ runs = [b \in Ids |-> [p \in Targets(b) |-> <<>>]]
    /\ pc = "idle"
    /\ in_progress_backfills = <<>>
    /\ backfill_jobs = <<>>
    /\ idx = 0
    /\ backfill = NoRow
    /\ cursor = NoRow.cursor
    /\ pending = 0
    /\ yielded = <<>>
    /\ escaped = ""
    /\ iterated = <<>>
    /\ raisedAt = {}
    /\ cancelRequested = {}
    /\ faults = 0
    /\ crashes = 0
    /\ passes = 0

\* the evaluator before its first tick
EvaluatorAtRest ==
    /\ snapshot = {}
    /\ eval_cursor = <<>>
    /\ request_set = {}
    /\ evaluated = {}
    /\ errored = {}
    /\ ticks = 0

NoCondition == [op |-> "", children |-> <<>>]

\* no condition tree is constructed
ConditionAtRest ==
    /\ condition = NoCondition
    /\ target = ""
    /\ truth = <<>>

\* no model instance is made
CacheAtRest ==
    /\ attrs = <<>>
    /\ allocated = 0
    /\ calls = <<>>
    /\ dumped = <<>>

\* with_source_code_links is not called
LinksAtRest ==
    /\ assets_defs = <<>>
    /\ linked = <<>>
    /\ relinked = <<>>

NoSchema == {[name |-> "", type |-> "None"]}

\* no TableMetadataValue is constructed
TableAtRest ==
    /\ table_records = <<>>
    /\ table_schema = NoSchema
    /\ table = <<>>

\* make_assets_defs is not called
NopeAtRest ==
    /\ defs_path = {}
    /\ made = <<>>

LaterAtRest == ConditionAtRest /\ CacheAtRest /\ LinksAtRest /\ TableAtRest /\ NopeAtRest

\* the metadata set before an instance is made
MetadataAtRest ==
    /\ namespace = <<>>
    /\ fields = <<>>
    /\ metadata = <<>>
    /\ extracted = <<>>
    /\ mpc = "idle"

\* the freshness check set before anything is built: no records, the clock at
\* the first instant
FreshnessAtRest ==
    /\ now = 0
    /\ records = {}
    /\ fpc = "idle"
    /\ checks_def = NoChecks
    /\ FreshnessLocalsAtRest

Init ==
    /\ DaemonInit
    /\ FreshnessAtRest
    /\ MetadataAtRest
    /\ EvaluatorAtRest
    /\ LaterAtRest

\* ------------------------------------------------- execute_backfill_iteration
\* line 20: a pass starts with the listing of the REQUESTED rows
StartPass ==
    /\ pc \in {"idle", "done", "raised"}
    /\ in_progress_backfills' = get_backfills(REQUESTED)
    /\ pc' = "listed"
    /\ backfill_jobs' = <<>>
    /\ idx' = 0
    /\ backfill' = NoRow
    /\ cursor' = NoRow.cursor
    /\ pending' = 0
    /\ yielded' = <<>>
    /\ escaped' = ""
    /\ iterated' = <<>>
    /\ raisedAt' = {}
    /\ UNCHANGED <<others, store, runs, cancelRequested, faults, crashes>>

\* the daemon's loop calls execute_backfill_iteration once more
ListRequested ==
    /\ passes < MaxPasses
    /\ passes' = passes + 1
    /\ StartPass

\* the same call in a daemon whose passes are not counted
ListRequestedAgain ==
    /\ passes' = passes
    /\ StartPass

\* lines 21-32: the listing of the CANCELING rows; nothing listed yields one None
ListCanceling ==
    /\ pc = "listed"
    /\ LET canceling_backfills == get_backfills(CANCELING)
       IN IF in_progress_backfills = <<>> /\ canceling_backfills = <<>>
          THEN /\ yielded' = Append(yielded, None)
               /\ pc' = "done"
               /\ UNCHANGED <<backfill_jobs, idx>>
          ELSE /\ backfill_jobs' = listed_jobs(in_progress_backfills, canceling_backfills)
               /\ idx' = 1
               /\ pc' = "loop"
               /\ UNCHANGED yielded
    /\ in_progress_backfills' = <<>>
    /\ UNCHANGED <<others, store, runs, backfill, cursor, pending, escaped,
                   iterated, raisedAt, cancelRequested, faults, crashes, passes>>

\* lines 20-21: get_backfills raises; nothing in execute_backfill_iteration catches it
ListingRaises ==
    /\ pc = "listed"
    /\ faults < MaxFaults
    /\ faults' = faults + 1
    /\ pc' = "raised"
    /\ escaped' = "get_backfills"
    /\ UNCHANGED <<others, store, runs, in_progress_backfills, backfill_jobs, idx, backfill, cursor,
                   pending, yielded, iterated, raisedAt, cancelRequested, crashes, passes>>

\* ------------------------------------------------------ execute_backfill_jobs
\* line 43: the loop is over
PassDone ==
    /\ pc = "loop"
    /\ idx > Len(backfill_jobs)
    /\ pc' = "done"
    /\ UNCHANGED <<others, store, runs, in_progress_backfills, backfill_jobs, idx, backfill, cursor,
                   pending, yielded, escaped, iterated, raisedAt, cancelRequested, faults,
                   crashes, passes>>

\* lines 44-65: refetch the row by id and call the iteration helper on it,
\* whatever its status
Refetch ==
    /\ pc = "loop"
    /\ idx <= Len(backfill_jobs)
    /\ backfill' = refetch(CurrentId)
    /\ cursor' = backfill'.cursor
    /\ iterated' = Append(iterated, CurrentId)
    /\ pc' = "try"
    /\ UNCHANGED <<others, store, runs, in_progress_backfills, backfill_jobs, idx, pending, yielded,
                   escaped, raisedAt, cancelRequested, faults, crashes, passes>>

\* line 47 (or 51, on a row that is gone): outside the try, so the exception
\* leaves the generator
RefetchRaises ==
    /\ pc = "loop"
    /\ idx <= Len(backfill_jobs)
    /\ faults < MaxFaults
    /\ faults' = faults + 1
    /\ pc' = "raised"
    /\ escaped' = "get_backfill"
    /\ UNCHANGED <<others, store, runs, in_progress_backfills, backfill_jobs, idx, backfill, cursor,
                   pending, yielded, iterated, raisedAt, cancelRequested, crashes, passes>>

\* lines 53-66: the iteration helper raises an Exception, at any point of it
IterationRaises ==
    /\ pc \in {"try", "submit", "persist"}
    /\ faults < MaxFaults
    /\ faults' = faults + 1
    /\ raisedAt' = raisedAt \cup {idx}
    /\ pending' = 0
    /\ pc' = "except"
    /\ UNCHANGED <<others, store, runs, in_progress_backfills, backfill_jobs, idx, backfill, cursor,
                   yielded, escaped, iterated, cancelRequested, crashes, passes>>

\* faulty variant of FailedRow: the except block records the error and leaves the status as it was
row_with_error_only(row, error_info) == with_error(row, error_info)

\* the row line 72-74 writes: the copy refetched at line 47, FAILED, with the error
FailedRow(row, error_info) == with_error(with_status(row, FAILED), error_info)

\* lines 66-75: record the failure on the refetched copy and yield the error
HandleException ==
    /\ pc = "except"
    /\ LET error_info == on_exception(backfill_jobs[idx].backfill_id)
       IN /\ store' = [store EXCEPT ![CurrentId] = FailedRow(backfill, error_info)]
          /\ yielded' = Append(yielded, error_info)
    /\ LeaveIteration
    /\ UNCHANGED <<others, runs, in_progress_backfills, backfill_jobs, pending,
                   escaped, iterated, raisedAt, cancelRequested, faults, crashes, passes>>

\* line 72: update_backfill raises inside the except block; nothing catches it
UpdateRaises ==
    /\ pc = "except"
    /\ faults < MaxFaults
    /\ faults' = faults + 1
    /\ pc' = "raised"
    /\ escaped' = "update_backfill"
    /\ UNCHANGED <<others, store, runs, in_progress_backfills, backfill_jobs, idx, backfill, cursor,
                   pending, yielded, iterated, raisedAt, cancelRequested, crashes, passes>>

\* --------------------------------------------- the per-backfill iteration
\* The helpers called at lines 55 and 59, after section 4.5: poll the runs the
\* cursor records as in flight, request a run for every target partition the
\* cursor does not record, persist the cursor after each request, and finish
\* with the status the cursor gives.  A helper knows the runs of a backfill
\* through its cursor only (section 6: request_run returns the RunId,
\* get_run_status takes one).

\* the cursor after polling the recorded runs of backfill b
Observed(c, b) ==
    [p \in DOMAIN c |-> IF c[p] = InFlight THEN runs[b][p][Len(runs[b][p])] ELSE c[p]]

\* faulty variant of Remaining: a tick requests a run again for a partition whose run failed
remaining_or_failed(c) == {p \in DOMAIN c : c[p] \in {NotRequested, RunFailed}}

\* the partitions a tick may request: the targets the working cursor does not record
Remaining(c) == {p \in DOMAIN c : c[p] = NotRequested}

\* faulty variant of CompletionStatus: a backfill whose targets all ended is COMPLETED, failures or not
completion_ignoring_failures(c) ==
    IF \A p \in DOMAIN c : c[p] \in RunTerminal THEN COMPLETED ELSE REQUESTED

\* the status a finished tick gives a REQUESTED backfill
CompletionStatus(c) ==
    IF \A p \in DOMAIN c : c[p] = Succeeded THEN COMPLETED
    ELSE IF \A p \in DOMAIN c : c[p] \in RunTerminal THEN COMPLETED_WITH_FAILURES
    ELSE REQUESTED

\* the status a tick gives a CANCELING backfill
CancelStatus(c) ==
    IF \E p \in DOMAIN c : c[p] = InFlight THEN CANCELING ELSE CANCELED

\* a helper's write: the cursor, and the status when the persisted row still
\* has the status the tick started from (a cancellation persisted meanwhile stays)
Persist(b, c, status) ==
    [store EXCEPT ![b] = [@ EXCEPT !.cursor = c,
                                   !.status = IF @ = backfill.status THEN status ELSE @]]

\* a tick of a REQUESTED backfill starts: observe the recorded runs
IterObserve ==
    /\ pc = "try"
    /\ backfill.status = REQUESTED
    /\ cursor' = Observed(cursor, CurrentId)
    /\ pc' = "submit"
    /\ UNCHANGED <<others, store, runs, in_progress_backfills, backfill_jobs, idx, backfill, pending,
                   yielded, escaped, iterated, raisedAt, cancelRequested, faults, crashes, passes>>

\* request_run for the next remaining partition
IterSubmit ==
    /\ pc = "submit"
    /\ Remaining(cursor) # {}
    /\ LET p == CHOOSE q \in Remaining(cursor) : \A r \in Remaining(cursor) : q <= r
       IN /\ runs' = [runs EXCEPT ![CurrentId][p] = Append(@, InFlight)]
          /\ pending' = p
    /\ pc' = "persist"
    /\ UNCHANGED <<others, store, in_progress_backfills, backfill_jobs, idx, backfill, cursor, yielded,
                   escaped, iterated, raisedAt, cancelRequested, faults, crashes, passes>>

\* persist the cursor that records the run just requested
IterPersist ==
    /\ pc = "persist"
    /\ cursor' = [cursor EXCEPT ![pending] = InFlight]
    /\ store' = Persist(CurrentId, cursor', backfill.status)
    /\ pending' = 0
    /\ pc' = "submit"
    /\ UNCHANGED <<others, runs, in_progress_backfills, backfill_jobs, idx, backfill, yielded, escaped,
                   iterated, raisedAt, cancelRequested, faults, crashes, passes>>

\* nothing left to request: persist the cursor and the resulting status
IterFinish ==
    /\ pc = "submit"
    /\ Remaining(cursor) = {}
    /\ store' = Persist(CurrentId, cursor, CompletionStatus(cursor))
    /\ LeaveIteration
    /\ UNCHANGED <<others, runs, in_progress_backfills, backfill_jobs, pending,
                   yielded, escaped, iterated, raisedAt, cancelRequested, faults, crashes, passes>>

\* a tick of a CANCELING backfill: request nothing, CANCELED once no recorded run is in flight
IterCancel ==
    /\ pc = "try"
    /\ backfill.status = CANCELING
    /\ LET c == Observed(cursor, CurrentId)
       IN store' = Persist(CurrentId, c, CancelStatus(c))
    /\ LeaveIteration
    /\ UNCHANGED <<others, runs, in_progress_backfills, backfill_jobs, pending, yielded,
                   escaped, iterated, raisedAt, cancelRequested, faults, crashes, passes>>

\* a helper called on a row that is already terminal has nothing to do
IterTerminal ==
    /\ pc = "try"
    /\ backfill.status \in Terminal
    /\ LeaveIteration
    /\ UNCHANGED <<others, store, runs, in_progress_backfills, backfill_jobs, pending,
                   yielded, escaped, iterated, raisedAt, cancelRequested, faults, crashes, passes>>

\* ------------------------------------------------------------ environment
\* an external actor persists a cancellation request
Cancel ==
    \E b \in Ids :
        /\ store[b].status = REQUESTED
        /\ store' = [store EXCEPT ![b].status = CANCELING]
        /\ cancelRequested' = cancelRequested \cup {b}
        /\ UNCHANGED <<others, runs, pc, passLocals, faults, crashes, passes>>

\* a run in flight reaches a terminal state
RunFinishes ==
    \E b \in Ids, outcome \in RunTerminal :
        \E p \in Targets(b) : \E i \in 1..Len(runs[b][p]) :
            /\ runs[b][p][i] = InFlight
            /\ runs' = [runs EXCEPT ![b][p][i] = outcome]
            /\ UNCHANGED <<others, store, pc, passLocals, cancelRequested, faults, crashes, passes>>

\* the daemon process dies in the middle of a pass and is started again:
\* what it held in memory is gone, the rows and the runs are not
Crash ==
    /\ pc \in {"listed", "loop", "try", "submit", "persist", "except"}
    /\ crashes < MaxCrashes
    /\ crashes' = crashes + 1
    /\ pc' = "idle"
    /\ in_progress_backfills' = <<>>
    /\ backfill_jobs' = <<>>
    /\ idx' = 0
    /\ backfill' = NoRow
    /\ cursor' = NoRow.cursor
    /\ pending' = 0
    /\ yielded' = <<>>
    /\ escaped' = ""
    /\ iterated' = <<>>
    /\ raisedAt' = {}
    /\ UNCHANGED <<others, store, runs, cancelRequested, faults, passes>>

\* ------------------------------------------------------- specifications
InPass ==
    \/ ListCanceling
    \/ PassDone
    \/ Refetch
    \/ IterObserve
    \/ IterSubmit
    \/ IterPersist
    \/ IterFinish
    \/ IterCancel
    \/ IterTerminal
    \/ HandleException

Next ==
    \/ ListRequested
    \/ InPass
    \/ ListingRaises
    \/ RefetchRaises
    \/ IterationRaises
    \/ UpdateRaises
    \/ Cancel
    \/ RunFinishes
    \/ Crash

Spec == Init /\ [][Next]_vars

\* A daemon that keeps running passes for ever, in which an iteration may
\* raise, an external actor may cancel and every run in flight ends: the
\* loop always takes its next step.
Daemon == ListRequestedAgain \/ InPass

NextFair ==
    \/ Daemon
    \/ IterationRaises
    \/ Cancel
    \/ RunFinishes

FairSpec == Init /\ [][NextFair]_vars /\ WF_vars(Daemon) /\ WF_vars(RunFinishes)

\* ------------------------------------------------------------ properties
\* a run is requested for partition p of backfill b in this step
RequestStep(b, p) == Len(runs'[b][p]) > Len(runs[b][p])

\* the helper is called for backfill b in this step (lines 47-65)
IterationStarts(b) == pc = "loop" /\ pc' = "try" /\ backfill_jobs[idx].backfill_id = b

\* the state of the latest run requested for (b, p)
LatestRun(b, p) == runs[b][p][Len(runs[b][p])]

\* C1 (as claimed): when a pass has ended and the iteration at some position of
\* backfill_jobs raised in it, the helper was called for every later position.
C1_LaterBackfillsIterated ==
    PassEnded =>
        \A i \in raisedAt : \A j \in (i + 1)..Len(backfill_jobs) : j <= Len(iterated)

\* C2 (as claimed): the step that leaves the except block of a backfill whose
\* iteration raised persists that backfill FAILED with the captured error,
\* yields that error, and changes the status and error of no other backfill.
C2_FailureRecordedAndYielded ==
    [][(pc = "except" /\ pc' # "except" /\ crashes' = crashes) =>
        LET b == backfill_jobs[idx].backfill_id
        IN /\ store'[b].status = FAILED
           /\ store'[b].error = on_exception(b)
           /\ yielded' = Append(yielded, on_exception(b))
           /\ \A o \in Ids \ {b} : /\ store'[o].status = store[o].status
                                   /\ store'[o].error = store[o].error]_vars

\* C3 (as claimed): no failure of get_backfill, of the iteration or of
\* update_backfill leaves execute_backfill_iteration.
C3_NoFailureEscapes ==
    ~(pc = "raised" /\ escaped \in {"get_backfill", "update_backfill", "iteration"})

\* C4 (as claimed): a backfill whose persisted status is terminal is not
\* iterated again and its status does not change.
C4_TerminalIsFinal ==
    [][\A b \in Ids :
        store[b].status \in Terminal =>
            /\ store'[b].status = store[b].status
            /\ ~IterationStarts(b)]_vars

\* C5 (as claimed): a CANCELING backfill only stays CANCELING or becomes
\* CANCELED, and a REQUESTED backfill only moves to REQUESTED, CANCELING,
\* COMPLETED, COMPLETED_WITH_FAILURES or FAILED.
C5_StatusTransitions ==
    [][\A b \in Ids :
        /\ store[b].status = CANCELING => store'[b].status \in {CANCELING, CANCELED}
        /\ store[b].status = REQUESTED =>
               store'[b].status \in {REQUESTED, CANCELING, COMPLETED,
                                     COMPLETED_WITH_FAILURES, FAILED}]_vars

\* C6: the row an iteration runs on is the one refetched by id right before it:
\* when the cancellation of the backfill was persisted before the refetch, the
\* helper is called on a row that is not REQUESTED, whatever the pass listed;
\* and no step of the daemon or of the cancelling actor changes the state of
\* a run (runs end by themselves).
C6_RefetchSeesCancellation ==
    [][/\ \A b \in Ids :
            (IterationStarts(b) /\ b \in cancelRequested) => backfill'.status # REQUESTED
       /\ (pc' # pc \/ store' # store) =>
            \A b \in Ids : \A p \in Targets(b) : \A i \in 1..Len(runs[b][p]) :
                runs'[b][p][i] = runs[b][p][i]]_vars

\* C6 witness: the pass listed the backfill as REQUESTED, its cancellation was
\* persisted before the refetch, and the helper runs on the CANCELING row.
C6_Witness ==
    /\ pc = "try"
    /\ backfill_jobs[idx].status = REQUESTED
    /\ backfill.status = CANCELING
    /\ \E p \in Targets(backfill_jobs[idx].backfill_id) :
           Len(runs[backfill_jobs[idx].backfill_id][p]) > 0
              /\ LatestRun(backfill_jobs[idx].backfill_id, p) = InFlight

\* C7 (as claimed): no backfill id is iterated twice in one pass.
C7_IteratedOncePerPass ==
    \A i, j \in 1..Len(iterated) : i # j => iterated[i] # iterated[j]

\* what the cursor of b records of p agrees with: a recorded run is the latest
\* one requested for p
RecordedRunsAgree(b) ==
    \A p \in Targets(b) :
        store[b].cursor[p] \in RunTerminal =>
            Len(runs[b][p]) > 0 /\ LatestRun(b, p) = store[b].cursor[p]

\* the status of a backfill follows what all its target partitions ended as
CompletionMatchesCursor(b) ==
    /\ store[b].status = COMPLETED => \A p \in Targets(b) : store[b].cursor[p] = Succeeded
    /\ store[b].status = COMPLETED_WITH_FAILURES =>
           /\ \A p \in Targets(b) : store[b].cursor[p] \in RunTerminal
           /\ \E p \in Targets(b) : store[b].cursor[p] = RunFailed
    /\ (\A p \in Targets(b) : store[b].cursor[p] \in RunTerminal) =>
           store[b].status # REQUESTED

C10_CancelingEndsCanceled ==
    /\ [][\A b \in Ids :
            (store[b].status = CANCELING /\ store'[b].status = CANCELED) =>
                \A p \in Targets(b) : \A i \in 1..Len(runs[b][p]) : runs[b][p][i] # InFlight]_vars
    /\ \A b \in Ids : (store[b].status = CANCELING) ~> (store[b].status = CANCELED)

\* C24 (as claimed): the FAILED row the except block writes carries the cursor
\* persisted last, not the cursor of the copy refetched before the iteration.
C24_FailedRowKeepsPersistedCursor ==
    [][(pc = "except" /\ pc' = "loop") =>
        /\ store'[CurrentId].status = FAILED
        /\ store'[CurrentId].cursor = store[CurrentId].cursor]_vars

\* no persisted row is REQUESTED or CANCELING
NoneActive == \A b \in Ids : store[b].status \notin {REQUESTED, CANCELING}

\* C25: a pass whose listings find no REQUESTED and no CANCELING row ends at
\* once, having yielded one None, refetched nothing and written nothing; and
\* a step of the daemon changes a row only in a pass that listed it as
\* REQUESTED or CANCELING.
C25_IdlePassAndFrame ==
    /\ [][(pc = "listed" /\ NoneActive /\ pc' \notin {"listed", "raised", "idle"}) =>
            /\ pc' = "done"
            /\ yielded' = <<None>>
            /\ iterated' = <<>>
            /\ store' = store]_vars
    /\ []((pc = "done" /\ backfill_jobs = <<>>) => (yielded = <<None>> /\ iterated = <<>>))
    /\ [][\A b \in Ids :
            (store'[b] # store[b] /\ cancelRequested' = cancelRequested) =>
                \E i \in 1..Len(backfill_jobs) :
                    /\ backfill_jobs[i].backfill_id = b
                    /\ backfill_jobs[i].status \in {REQUESTED, CANCELING}]_vars

\* C25 witness: the second pass found every backfill FAILED and has ended
\* with one None.
C25_Witness ==
    /\ pc = "done"
    /\ passes = MaxPasses
    /\ backfill_jobs = <<>>
    /\ yielded = <<None>>
    /\ \A b \in Ids : store[b].status = FAILED

\* C26: the jobs of a pass are the rows listed as REQUESTED followed by those
\* listed as CANCELING, each group in listing order; they are iterated in
\* that order, one at a time; and an iteration starts only when every earlier
\* job has been iterated and, where it raised, its failure is persisted.
C26_OneAfterAnother ==
    /\ [](\A i, j \in 1..Len(backfill_jobs) :
            i < j => /\ backfill_jobs[i].status = CANCELING => backfill_jobs[j].status = CANCELING
                     /\ backfill_jobs[i].status = backfill_jobs[j].status =>
                            backfill_jobs[i].backfill_id < backfill_jobs[j].backfill_id)
    /\ [](/\ Len(iterated) <= Len(backfill_jobs)
          /\ \A i \in 1..Len(iterated) : iterated[i] = backfill_jobs[i].backfill_id
          /\ pc \in {"try", "submit", "persist", "except"} => Len(iterated) = idx)
    /\ [][(pc = "loop" /\ pc' = "try") =>
            /\ Len(iterated) = idx - 1
            /\ pending = 0
            /\ \A i \in raisedAt :
                   /\ i < idx
                   /\ store[backfill_jobs[i].backfill_id].status = FAILED
                   /\ store[backfill_jobs[i].backfill_id].error
                          = on_exception(backfill_jobs[i].backfill_id)]_vars

\* C26 witness: the iteration of the CANCELING job has started after that of
\* the REQUESTED job listed before it raised.
C26_Witness ==
    /\ pc = "try"
    /\ idx = 2
    /\ backfill_jobs[1].status = REQUESTED
    /\ backfill_jobs[2].status = CANCELING
    /\ 1 \in raisedAt

\* ========================================================================
\* The freshness check set: build_time_partition_freshness_checks and
\* TimePartitionFreshnessCheckSet.execute of time_partition.py.  The cron
\* helpers of dagster._utils.schedules, the partitions definition and
\* retrieve_latest_record are imported by time_partition.py and are not part
\* of the sources at hand: they are modelled from sections 4.1 and 6 of the
\* specification.  Times are seconds; a partition key is the number of the
\* day its window starts on, counted in the timezone of the partitions
\* definition.
\* ========================================================================

\* ------------------------------------------------------------- bounds
\* days the clock runs over
NumDays == 2
\* records the instance holds, over a whole behaviour
MaxRecords == 2
\* check keys one execution selects
MaxSelected == 2

Hour == 60 * 60
Day == 24 * Hour
Days == 2..(NumDays + 1)
\* the instants the clock stops at: on each day midnight, and one second
\* before, at and one second after nine o'clock
Instants == {d * Day + s : d \in Days, s \in {0, 9 * Hour - 1, 9 * Hour, 9 * Hour + 1}}
PartitionKeys == 0..NumDays

\* ------------------------------------------------------------- time zones
FreshnessTimezones == {"UTC", "Asia/Tokyo"}
UtcOffset(tz) ==
    CASE tz = "UTC" -> 0
      [] tz = "Asia/Tokyo" -> 9 * Hour
      [] tz = "Pacific/Honolulu" -> 0 - 10 * Hour
      [] OTHER -> 0

\* pendulum.from_timestamp(t, tz): the same instant, read on the clock of tz
LocalTime(t, tz) == t + UtcOffset(tz)

\* ------------------------------------------------------------- cron
\* deadline_cron = None
NoneCron == "None"
Crons == {"0 9 * * *", "0 * * * *"}
CronInputs == Crons \cup {"every morning", NoneCron}
CronPeriod(cron) == IF cron = "0 * * * *" THEN Hour ELSE Day
CronPhase(cron) == IF cron = "0 9 * * *" THEN 9 * Hour ELSE 0

is_valid_cron_string(cron) == cron \in Crons

\* t is a tick of the cron schedule evaluated in tz
IsTick(cron, tz, t) == (LocalTime(t, tz) - CronPhase(cron)) % CronPeriod(cron) = 0

\* section 4.1, latest_completed_tick: the most recent tick <= t
get_latest_completed_cron_tick(cron, t, tz) ==
    t - ((LocalTime(t, tz) - CronPhase(cron)) % CronPeriod(cron))

\* section 4.1, next_tick: the first tick strictly > t
get_next_cron_tick(cron, t, tz) ==
    get_latest_completed_cron_tick(cron, t, tz) + CronPeriod(cron)

\* faulty variant of latest_deadline: the ticks are taken in UTC, whatever the timezone
latest_deadline_in_utc(cron, t, tz) == get_latest_completed_cron_tick(cron, t, "UTC")

\* lines 99-102: the deadline is the latest completed tick of deadline_cron
\* at the current time, both in the timezone of the check
latest_deadline(cron, t, tz) == get_latest_completed_cron_tick(cron, t, tz)

\* ------------------------------------------------------------- the asset graph
Assets == {"daily_utc", "daily_hst", "static", "plain"}

\* context.job_def.asset_layer.asset_graph.get(asset_key).partitions_def:
\* two daily time-window definitions (one starting on day 1 in UTC, one
\* starting on day 0 in Honolulu), a static one, and an unpartitioned asset
partitions_def(asset_key) ==
    CASE asset_key = "daily_utc" -> [kind |-> "time_window", timezone |-> "UTC", start |-> 1]
      [] asset_key = "daily_hst" ->
             [kind |-> "time_window", timezone |-> "Pacific/Honolulu", start |-> 0]
      [] asset_key = "static" -> [kind |-> "static", timezone |-> "", start |-> 0]
      [] asset_key = "plain" -> [kind |-> "none", timezone |-> "", start |-> 0]

TimeWindowAssets == {a \in Assets : partitions_def(a).kind = "time_window"}

\* faulty variant of check_inst: every partitions definition is let through
inst_unchecked(pd) == TRUE

\* check.inst(..., TimeWindowPartitionsDefinition) of lines 95-98 lets pd through
check_inst(pd) == pd.kind = "time_window"

NoWindow == [start |-> NoTime, end |-> NoTime]

\* the instant at which the window of partition key k ends
WindowEnd(pd, k) == (k + 1) * Day - UtcOffset(pd.timezone)

\* section 4.1, partition_window_for_tick: the most recently completed window
\* ending at or before dt, None if the partitions start later
get_prev_partition_window(pd, dt) ==
    LET k == (LocalTime(dt, pd.timezone) \div Day) - 1
    IN IF k < pd.start THEN NoWindow
       ELSE [start |-> k * Day - UtcOffset(pd.timezone), end |-> WindowEnd(pd, k)]

\* faulty variant of get_partition_key_range_start: the key of the day the window ends on
get_partition_key_range_end(pd, window) == LocalTime(window.end, pd.timezone) \div Day

\* get_partition_key_range_for_time_window(window).start of lines 109-111
get_partition_key_range_start(pd, window) == LocalTime(window.start, pd.timezone) \div Day

\* ------------------------------------------------------------- records
\* faulty variant of retrieve_latest_record: the partition key is not used
retrieve_any_partition(asset_key, partition_key) ==
    LET found == {r \in records : r.asset_key = asset_key}
    IN IF found = {} THEN {NoRecord} ELSE found

\* section 6, get_latest_record(asset_key, partition_key | None): the records
\* one of which is the latest of the asset (of that partition, if one is
\* given); None if there is none
retrieve_latest_record(asset_key, partition_key) ==
    LET found == {r \in records : /\ r.asset_key = asset_key
                                  /\ partition_key \in {NoKey, r.partition_key}}
    IN IF found = {} THEN {NoRecord} ELSE found

\* faulty variant of latest_record_of: the record is asked for with partition_key=None
latest_record_of_any(asset_key, partition_key) == retrieve_any_partition(asset_key, partition_key)

\* lines 112-114 and 124-126: the call of retrieve_latest_record
latest_record_of(asset_key, partition_key) == retrieve_latest_record(asset_key, partition_key)

NoTimestamp == [timestamp_of |-> NoRecord]

\* lines 182-184: a materialization has the time it was created at, an
\* observation the time its metadata gives, if it gives one
get_last_updated_timestamp(record) ==
    IF record.timestamped THEN [timestamp_of |-> record] ELSE NoTimestamp

\* ------------------------------------------------------------- results
FRESHNESS_PARAMS_METADATA_KEY == "dagster/freshness_params"
LATEST_CRON_TICK_METADATA_KEY == "dagster/latest_cron_tick_timestamp"
LAST_UPDATED_TIMESTAMP_METADATA_KEY == "dagster/last_updated_timestamp"
FRESH_UNTIL_METADATA_KEY == "dagster/fresh_until_timestamp"

\* _construct_description of lines 238-249
construct_description(partition_key, is_passed, any_records_exist_for_asset) ==
    IF is_passed THEN <<"fresh", partition_key>>
    ELSE IF ~any_records_exist_for_asset THEN <<"never", partition_key>>
    ELSE <<"overdue", partition_key>>

\* faulty variant of reports_last_updated: whether the check passed is not looked at
reports_whenever_updated(is_passed, latest_record_any_partition) ==
    latest_record_any_partition # NoRecord

\* line 128
reports_last_updated(is_passed, latest_record_any_partition) ==
    ~is_passed /\ latest_record_any_partition # NoRecord

\* faulty variant of fresh_until_of: the clock is read again when the result
\* is made
fresh_until_from_clock(cron, t, tz) == get_next_cron_tick(cron, now, tz)

\* lines 137-141: the next tick after the time read at line 93
fresh_until_of(cron, t, tz) == get_next_cron_tick(cron, t, tz)

\* the asset the loop of line 91 is at
CheckedAsset == selected_asset_check_keys[key_idx]

\* sequences of distinct assets, at most MaxSelected long
Selections ==
    {sel \in UNION {[1..n -> Assets] : n \in 1..MaxSelected} :
        \A i, j \in DOMAIN sel : i # j => sel[i] # sel[j]}

notFreshVars == <<daemonVars, metaVars, evalVars, laterVars>>

\* ------------------------------------------------------------- the builder
\* lines 225-235: the parameter checks, then the check set
Build ==
    \E deadline_cron \in CronInputs, timezone \in FreshnessTimezones :
        /\ fpc = "idle"
        /\ IF deadline_cron = NoneCron \/ is_valid_cron_string(deadline_cron)
           THEN /\ checks_def' = [deadline_cron |-> deadline_cron, timezone |-> timezone]
                /\ fpc' = "built"
                /\ raised' = ""
           ELSE /\ checks_def' = checks_def
                /\ fpc' = "rejected"
                /\ raised' = "Invalid cron string."
        /\ UNCHANGED <<now, records, selected_asset_check_keys, key_idx, current_timestamp,
                       deadline, expected_partition_key, passed, results>>
        /\ UNCHANGED notFreshVars

\* ------------------------------------------------------------- execute()
\* line 88: an execution of the built check set over the selected check keys
Execute ==
    \E sel \in Selections :
        /\ fpc = "built"
        /\ selected_asset_check_keys' = sel
        /\ key_idx' = 1
        /\ fpc' = "loop"
        /\ UNCHANGED <<now, records, checks_def, current_timestamp, deadline,
                       expected_partition_key, passed, results, raised>>
        /\ UNCHANGED notFreshVars

\* an exception leaves the generator: the results yielded so far stay yielded
Raise(error) ==
    /\ fpc' = "raised"
    /\ raised' = error
    /\ UNCHANGED <<deadline, expected_partition_key, passed, results, key_idx>>

\* lines 92-111: the clock, the partitions definition, the deadline and the
\* partition expected by it
ExpectPartition ==
    /\ fpc = "loop"
    /\ current_timestamp' = now
    /\ LET pd == partitions_def(CheckedAsset)
           cron == checks_def.deadline_cron
           tz == checks_def.timezone
       IN IF ~check_inst(pd) THEN Raise("check.inst")
          ELSE IF ~is_valid_cron_string(cron) THEN Raise("get_latest_completed_cron_tick")
          ELSE LET tick == latest_deadline(cron, now, tz)
                   last_completed_time_window == get_prev_partition_window(pd, tick)
               IN IF last_completed_time_window = NoWindow THEN Raise("check.not_none")
                  ELSE /\ deadline' = tick
                       /\ expected_partition_key' =
                              get_partition_key_range_start(pd, last_completed_time_window)
                       /\ fpc' = "retrieve"
                       /\ UNCHANGED <<passed, results, key_idx, raised>>
    /\ UNCHANGED <<now, records, checks_def, selected_asset_check_keys>>
    /\ UNCHANGED notFreshVars

\* lines 112-115
RetrieveExpected ==
    /\ fpc = "retrieve"
    /\ \E latest_record \in latest_record_of(CheckedAsset, expected_partition_key) :
           passed' = (latest_record # NoRecord)
    /\ fpc' = "report"
    /\ UNCHANGED <<now, records, checks_def, selected_asset_check_keys, key_idx,
                   current_timestamp, deadline, expected_partition_key, results, raised>>
    /\ UNCHANGED notFreshVars

\* lines 117-153: the metadata, then the result; the loop goes on to the next key
YieldResult ==
    /\ fpc = "report"
    /\ \E latest_record_any_partition \in latest_record_of(CheckedAsset, NoKey) :
        LET base == (FRESHNESS_PARAMS_METADATA_KEY :> checks_def)
                        @@ (LATEST_CRON_TICK_METADATA_KEY :> deadline)
            last_updated == get_last_updated_timestamp(latest_record_any_partition)
            fresh_until == fresh_until_of(checks_def.deadline_cron, current_timestamp,
                                          checks_def.timezone)
            result_metadata ==
                IF reports_last_updated(passed, latest_record_any_partition)
                THEN base @@ (LAST_UPDATED_TIMESTAMP_METADATA_KEY :> last_updated)
                ELSE IF passed THEN base @@ (FRESH_UNTIL_METADATA_KEY :> fresh_until)
                ELSE base
        IN IF /\ reports_last_updated(passed, latest_record_any_partition)
              /\ last_updated = NoTimestamp
           THEN /\ Raise("check.not_none")
                /\ UNCHANGED current_timestamp
           ELSE /\ results' = Append(results,
                        [asset_key |-> CheckedAsset,
                         passed |-> passed,
                         description |-> construct_description(expected_partition_key, passed,
                                             latest_record_any_partition # NoRecord),
                         metadata |-> result_metadata])
                /\ key_idx' = key_idx + 1
                /\ fpc' = IF key_idx = Len(selected_asset_check_keys) THEN "done" ELSE "loop"
                /\ current_timestamp' = NoTime
                /\ deadline' = NoTime
                /\ expected_partition_key' = NoKey
                /\ passed' = FALSE
                /\ UNCHANGED raised
    /\ UNCHANGED <<now, records, checks_def, selected_asset_check_keys>>
    /\ UNCHANGED notFreshVars

\* ------------------------------------------------------------- environment
\* time passes while execute() runs (before it, the clock is at any instant)
ClockAdvances ==
    /\ fpc \in {"loop", "retrieve", "report"}
    /\ \E t \in Instants : t > now /\ now' = t
    /\ UNCHANGED <<records, fpc, checks_def, selected_asset_check_keys, key_idx,
                   current_timestamp, deadline, expected_partition_key, passed, results, raised>>
    /\ UNCHANGED notFreshVars

\* a run materializes or observes a partition of a time-window asset: the
\* instance gets a record, with or without a last-updated time (an execution
\* that has ended, or a builder that has raised, reads nothing more)
ReportEvent ==
    /\ fpc \notin {"done", "raised", "rejected"}
    /\ Cardinality(records) < MaxRecords
    /\ \E a \in TimeWindowAssets, k \in PartitionKeys, ts \in BOOLEAN :
           records' = records \cup {[asset_key |-> a, partition_key |-> k, timestamped |-> ts]}
    /\ UNCHANGED <<now, fpc, checks_def, selected_asset_check_keys, key_idx,
                   current_timestamp, deadline, expected_partition_key, passed, results, raised>>
    /\ UNCHANGED notFreshVars

FreshnessInit ==
    /\ DaemonInit
    /\ now \in Instants
    /\ records = {}
    /\ fpc = "idle"
    /\ checks_def = NoChecks
    /\ FreshnessLocalsAtRest
    /\ MetadataAtRest
    /\ EvaluatorAtRest
    /\ LaterAtRest

FreshnessNext ==
    \/ Build
    \/ Execute
    \/ ExpectPartition
    \/ RetrieveExpected
    \/ YieldResult
    \/ ClockAdvances
    \/ ReportEvent

FreshnessSpec == FreshnessInit /\ [][FreshnessNext]_vars

\* ------------------------------------------------------------- properties
NineOClock == "0 9 * * *"

\* the step of lines 92-111 for the check key the loop is at
ExpectStep == fpc = "loop" /\ fpc' # "loop"
\* the step of lines 112-115
RetrieveStep == fpc = "retrieve" /\ fpc' = "report"
\* the step of lines 117-153 that yields a result
YieldStep == fpc = "report" /\ Len(results') = Len(results) + 1
LastYielded == results'[Len(results')]

\* the instants at which a tick of one of the cron schedules can fall, and
\* the seconds next to them
Probes == {d * Day + h * Hour + e : d \in 0..(NumDays + 2), h \in 0..23, e \in {-1, 0, 1}}

\* k is the key of the last partition window completed by the instant t
LastCompletedBy(pd, k, t) == WindowEnd(pd, k) <= t /\ t < WindowEnd(pd, k + 1)

\* C11 (as claimed): with deadline cron "0 9 * * *" in UTC, the check of any
\* daily-partitioned asset executed at 09:00:01 on day D has the deadline 09:00
\* of day D and expects the partition of day D-1, and executed at 08:59:59 on
\* day D it has the deadline 09:00 of day D-1 and expects the partition of day
\* D-2.
C11_NineOClockDeadline ==
    [][(/\ ExpectStep
        /\ checks_def.deadline_cron = NineOClock
        /\ checks_def.timezone = "UTC"
        /\ CheckedAsset \in TimeWindowAssets)
       => \A D \in Days :
            /\ now = D * Day + 9 * Hour + 1
                 => /\ fpc' = "retrieve"
                    /\ deadline' = D * Day + 9 * Hour
                    /\ expected_partition_key' = D - 1
            /\ now = D * Day + 9 * Hour - 1
                 => /\ fpc' = "retrieve"
                    /\ deadline' = (D - 1) * Day + 9 * Hour
                    /\ expected_partition_key' = D - 2]_vars

\* C11 (amended): the same, for an asset whose daily partitions are cut in UTC
\* and have started by the expected day.
C11_NineOClockDeadlineUtcPartitions ==
    [][(/\ ExpectStep
        /\ checks_def.deadline_cron = NineOClock
        /\ checks_def.timezone = "UTC"
        /\ CheckedAsset \in TimeWindowAssets
        /\ partitions_def(CheckedAsset).timezone = "UTC")
       => \A D \in Days :
            /\ (now = D * Day + 9 * Hour + 1 /\ partitions_def(CheckedAsset).start <= D - 1)
                 => /\ fpc' = "retrieve"
                    /\ deadline' = D * Day + 9 * Hour
                    /\ expected_partition_key' = D - 1
            /\ (now = D * Day + 9 * Hour - 1 /\ partitions_def(CheckedAsset).start <= D - 2)
                 => /\ fpc' = "retrieve"
                    /\ deadline' = (D - 1) * Day + 9 * Hour
                    /\ expected_partition_key' = D - 2]_vars

\* C11 witness: a check of the UTC-partitioned asset executed at 08:59:59 of
\* a day D has the deadline of day D-1 and expects the partition of day D-2.
C11_Witness ==
    /\ fpc = "retrieve"
    /\ checks_def = [deadline_cron |-> NineOClock, timezone |-> "UTC"]
    /\ CheckedAsset = "daily_utc"
    /\ \E D \in Days : /\ current_timestamp = D * Day + 9 * Hour - 1
                       /\ deadline = (D - 1) * Day + 9 * Hour
                       /\ expected_partition_key = D - 2

\* C12: the deadline is a tick <= now with no tick after it up to now, the
\* result reports it as the latest tick, and the fresh-until time of a passed
\* check is a tick > now with no tick between the deadline and it.
C12_DeadlineAndFreshUntil ==
    [][/\ ExpectStep /\ fpc' = "retrieve"
          => /\ deadline' <= now
             /\ IsTick(checks_def.deadline_cron, checks_def.timezone, deadline')
             /\ \A u \in Probes : (deadline' < u /\ u <= now)
                    => ~IsTick(checks_def.deadline_cron, checks_def.timezone, u)
       /\ YieldStep
          => /\ LastYielded.metadata[LATEST_CRON_TICK_METADATA_KEY] = deadline
             /\ passed <=> FRESH_UNTIL_METADATA_KEY \in DOMAIN LastYielded.metadata
             /\ passed =>
                  LET fresh_until == LastYielded.metadata[FRESH_UNTIL_METADATA_KEY]
                  IN /\ fresh_until > current_timestamp
                     /\ IsTick(checks_def.deadline_cron, checks_def.timezone, fresh_until)
                     /\ \A u \in Probes : (deadline < u /\ u < fresh_until)
                            => ~IsTick(checks_def.deadline_cron, checks_def.timezone, u)]_vars

\* C12 witness: a check executed exactly at a tick has that tick as its
\* deadline, and has passed, so that its result gets a fresh-until time.
C12_Witness ==
    /\ fpc = "report"
    /\ passed
    /\ current_timestamp = deadline

\* C13: the check passes exactly if the instance has a record of the asset for
\* the key of the last partition window completed by the deadline, and the
\* result carries that value.
C13_PassedIffExpectedRecord ==
    [][/\ RetrieveStep
          => (passed' <=> \E r \in records :
                             /\ r.asset_key = CheckedAsset
                             /\ LastCompletedBy(partitions_def(CheckedAsset),
                                                r.partition_key, deadline))
       /\ YieldStep => LastYielded.passed = passed]_vars

\* C13 witness: a check has not passed although the asset has a record of
\* another partition.
C13_Witness ==
    /\ fpc = "report"
    /\ ~passed
    /\ \E r \in records : r.asset_key = CheckedAsset /\ r.partition_key # expected_partition_key

\* C14: no result is ever yielded for an asset that has no time-window
\* partitions definition, and the step of execute() for such an asset raises.
C14_NonTimeWindowRaises ==
    /\ [](\A i \in DOMAIN results : results[i].asset_key \in TimeWindowAssets)
    /\ [][(ExpectStep /\ CheckedAsset \notin TimeWindowAssets)
          => /\ fpc' = "raised"
             /\ raised' = "check.inst"
             /\ results' = results]_vars

\* C14 witness: execute() has raised at the unpartitioned asset, after it
\* yielded the result of another asset.
C14_Witness ==
    /\ fpc = "raised"
    /\ raised = "check.inst"
    /\ CheckedAsset = "plain"
    /\ Len(results) = 1

\* C15 (as claimed): when execute() has ended on the configuration error of one
\* asset, every selected asset with a time-window partitions definition has
\* its own result.
C15_ConfigurationErrorIsolated ==
    (fpc = "raised" /\ raised = "check.inst")
        => \A i \in DOMAIN selected_asset_check_keys :
               selected_asset_check_keys[i] \in TimeWindowAssets
                   => \E j \in DOMAIN results :
                          results[j].asset_key = selected_asset_check_keys[i]

\* C16 (as claimed): the builder returns a check set only for a valid cron
\* string, and a rejected call has produced and executed nothing.
C16_InvalidCronRejected ==
    /\ fpc = "rejected" => (checks_def = NoChecks /\ results = <<>>)
    /\ checks_def # NoChecks => is_valid_cron_string(checks_def.deadline_cron)

\* C17: a result has the last-updated entry exactly if the check has not
\* passed and the instance has a record of the asset, of whatever partition.
C17_LastUpdatedEntry ==
    [][YieldStep
       => (LAST_UPDATED_TIMESTAMP_METADATA_KEY \in DOMAIN LastYielded.metadata
             <=> (~passed /\ \E r \in records : r.asset_key = CheckedAsset))]_vars

\* C17 witness: a result with the last-updated entry has been yielded.
C17_Witness ==
    \E i \in DOMAIN results :
        /\ ~results[i].passed
        /\ LAST_UPDATED_TIMESTAMP_METADATA_KEY \in DOMAIN results[i].metadata

\* C27: a yielded result has the fresh-until entry exactly if it passed; the
\* entry is a tick after the time the check read at line 93, with no tick
\* between the two; and no result has both the fresh-until and the
\* last-updated entry.
C27_FreshUntilEntry ==
    [][YieldStep
       => LET has_fresh_until == FRESH_UNTIL_METADATA_KEY \in DOMAIN LastYielded.metadata
              has_last_updated ==
                  LAST_UPDATED_TIMESTAMP_METADATA_KEY \in DOMAIN LastYielded.metadata
          IN /\ has_fresh_until <=> LastYielded.passed
             /\ ~(has_fresh_until /\ has_last_updated)
             /\ has_fresh_until =>
                  LET fresh_until == LastYielded.metadata[FRESH_UNTIL_METADATA_KEY]
                  IN /\ fresh_until > current_timestamp
                     /\ IsTick(checks_def.deadline_cron, checks_def.timezone, fresh_until)
                     /\ \A u \in Probes : (current_timestamp < u /\ u < fresh_until)
                            => ~IsTick(checks_def.deadline_cron, checks_def.timezone, u)]_vars

\* C27 witness: a passed result has been yielded whose fresh-until time the
\* clock had reached when it was yielded (time passed since line 93), for an
\* asset that has a record with a last-updated time.
C27_Witness ==
    \E i \in DOMAIN results :
        /\ results[i].passed
        /\ FRESH_UNTIL_METADATA_KEY \in DOMAIN results[i].metadata
        /\ results[i].metadata[FRESH_UNTIL_METADATA_KEY] <= now
        /\ \E r \in records : r.asset_key = results[i].asset_key /\ r.timestamped

\* ========================================================================
\* NamespacedMetadataSet of metadata/metadata_set.py.  A string is the
\* sequence of its pieces, the piece "/" being the separator, so that
\* str.split is computed and not assumed.  A value is the type it has and,
\* for a MetadataValue, the type of the value it wraps.
\* ========================================================================

\* extra entries a metadata dictionary gets
MaxEntries == 2

Sep == "/"
Namespaces == {<<"dagster">>, <<"my", Sep, "ns">>}

\* model_fields(cls) with the types each annotation accepts: a field
\* Optional[str] and a field Optional[Union[MetadataValue, str]]
Annotations ==
    [label |-> {"str", "NoneType"}, any |-> {"MetadataValue", "str", "NoneType"}]
FieldNames == DOMAIN Annotations

NoneValue == [type |-> "NoneType", inner |-> ""]
Values ==
    {[type |-> "str", inner |-> ""],
     [type |-> "TextMetadataValue", inner |-> "str"],
     [type |-> "IntMetadataValue", inner |-> "int"]}

\* isinstance(value, MetadataValue)
IsMetadataValue(value) == value.inner # ""

\* the model's validation of a field value on construction (line 59, line 116)
Accepts(annotation, value) ==
    \/ value.type \in annotation
    \/ "MetadataValue" \in annotation /\ IsMetadataValue(value)

Instances == {m \in [FieldNames -> Values \cup {NoneValue}] :
                 \A f \in FieldNames : Accepts(Annotations[f], m[f])}

\* the index of the first separator of s (0 if it has none)
FirstSep(s) ==
    IF \A i \in DOMAIN s : s[i] # Sep THEN 0
    ELSE CHOOSE i \in DOMAIN s : s[i] = Sep /\ \A j \in 1..(i - 1) : s[j] # Sep

\* s.split("/")
RECURSIVE Split(_)
Split(s) ==
    IF FirstSep(s) = 0 THEN <<s>>
    ELSE <<SubSeq(s, 1, FirstSep(s) - 1)>> \o Split(SubSeq(s, FirstSep(s) + 1, Len(s)))

\* s.split("/", 1)
SplitOnce(s) ==
    IF FirstSep(s) = 0 THEN <<s>>
    ELSE <<SubSeq(s, 1, FirstSep(s) - 1), SubSeq(s, FirstSep(s) + 1, Len(s))>>

\* lines 66-68
namespaced_key(ns, key) == ns \o <<Sep>> \o <<key>>

\* lines 70-72
strip_namespace_from_key(key) == SplitOnce(key)[2]

\* lines 74-80
keys(ns, m) == {namespaced_key(ns, f) : f \in {g \in FieldNames : m[g] # NoneValue}}

\* lines 82-84: getattr raises AttributeError for a name that is no field
getitem_raises(key) == \A f \in FieldNames : strip_namespace_from_key(key) # <<f>>
getitem(m, key) == m[CHOOSE f \in FieldNames : strip_namespace_from_key(key) = <<f>>]

\* lines 119-135
extract_value(field_name, value) ==
    IF /\ IsMetadataValue(value)
       /\ value.type \notin Annotations[field_name]
       /\ value.inner \in Annotations[field_name]
    THEN [type |-> value.inner, inner |-> ""]
    ELSE value

\* faulty variant of has_two_parts: what follows the second part is dropped
has_two_parts_or_more(splits) == Len(splits) >= 2

\* line 111
has_two_parts(splits) == Len(splits) = 2

\* lines 110-113: the entry of this key is used for this field
Uses(ns, namespaced, f) ==
    LET splits == Split(namespaced)
    IN /\ has_two_parts(splits)
       /\ splits[1] = ns
       /\ splits[2] = <<f>>

Result(error, m) == [error |-> error, value |-> m]
NoInstance == [f \in FieldNames |-> NoneValue]

\* lines 108-116
extract(ns, md) ==
    LET kwargs == [f \in FieldNames |->
                     IF \E k \in DOMAIN md : Uses(ns, k, f)
                     THEN extract_value(f, md[CHOOSE k \in DOMAIN md : Uses(ns, k, f)])
                     ELSE NoneValue]
    IN IF \A f \in FieldNames : Accepts(Annotations[f], kwargs[f])
       THEN Result("", kwargs)
       ELSE Result("ValidationError", NoInstance)

\* keys other code puts into the same metadata dictionary: another
\* namespace, an unknown field, no separator, three parts, and the keys of
\* this class
OtherKeys(ns) ==
    {<<"other", Sep, "label">>, <<"dagster", Sep, "unknown">>, <<"label">>,
     <<"dagster", Sep, "label", Sep, "any">>}
        \cup {namespaced_key(ns, f) : f \in FieldNames}

notMetaVars == <<daemonVars, freshVars, evalVars, laterVars>>

\* dict(m): keys(), then __getitem__ of each key
ToDict ==
    /\ mpc = "made"
    /\ IF \E k \in keys(namespace, fields) : getitem_raises(k)
       THEN /\ mpc' = "raised"
            /\ UNCHANGED metadata
       ELSE /\ mpc' = "dict"
            /\ metadata' = [k \in keys(namespace, fields) |-> getitem(fields, k)]
    /\ UNCHANGED <<namespace, fields, extracted>>
    /\ UNCHANGED notMetaVars

\* the dictionary is placed with other entries ({**my_metadata, ...}, lines 38-44)
AddEntry ==
    /\ mpc \in {"made", "dict", "mixed"}
    /\ \E k \in OtherKeys(namespace) \ DOMAIN metadata, v \in Values :
           /\ Cardinality(DOMAIN metadata \ keys(namespace, fields)) < MaxEntries
           /\ metadata' = (k :> v) @@ metadata
    /\ mpc' = "mixed"
    /\ UNCHANGED <<namespace, fields, extracted>>
    /\ UNCHANGED notMetaVars

\* cls.extract(metadata)
Extract ==
    /\ mpc \in {"dict", "mixed"}
    /\ extracted' = extract(namespace, metadata)
    /\ mpc' = IF mpc = "dict" THEN "round_trip" ELSE "extracted"
    /\ UNCHANGED <<namespace, fields, metadata>>
    /\ UNCHANGED notMetaVars

MetadataInit ==
    /\ DaemonInit
    /\ FreshnessAtRest
    /\ EvaluatorAtRest
    /\ LaterAtRest
    /\ namespace \in Namespaces
    /\ fields \in Instances
    /\ metadata = <<>>
    /\ extracted = <<>>
    /\ mpc = "made"

MetadataNext == ToDict \/ AddEntry \/ Extract

MetadataSpec == MetadataInit /\ [][MetadataNext]_vars

\* ------------------------------------------------------------- properties
\* the entries of md whose key is exactly <namespace>/<field>
ExactEntries(ns, md) ==
    [k \in DOMAIN md \cap {namespaced_key(ns, f) : f \in FieldNames} |-> md[k]]

\* C18 (as claimed): dict(m) does not raise, and extract(dict(m)) is m.
C18_RoundTrip ==
    /\ mpc # "raised"
    /\ mpc = "round_trip" => extracted = Result("", fields)

\* C19: what extract returns for a dictionary, an error included, is what it
\* returns for the entries of the dictionary whose key is exactly
\* <namespace>/<field>.
C19_OnlyExactKeysUsed ==
    mpc = "extracted" => extracted = extract(namespace, ExactEntries(namespace, metadata))

\* C19 witness: extract has returned an instance with a field set, from a
\* dictionary that has an entry with three parts and an entry of another
\* namespace.
C19_Witness ==
    /\ mpc = "extracted"
    /\ extracted.error = ""
    /\ extracted.value # NoInstance
    /\ <<"dagster", Sep, "label", Sep, "any">> \in DOMAIN metadata
    /\ <<"other", Sep, "label">> \in DOMAIN metadata

\* ========================================================================
\* The scheduling evaluator.  declarative_scheduling/__init__.py names the
\* condition classes (MissingSchedulingCondition, WillBeRequestedCondition,
\* AnyDepsCondition, OrAssetCondition, ...); the classes and the evaluator
\* that walks the graph are not part of the sources at hand and are modelled
\* from sections 4.2 to 4.4 of the specification.  Every asset has one
\* partition and the root condition  Missing OR ANY-DEPS(WillBeRequested).
\* ========================================================================

\* evaluation ticks, over a whole behaviour
MaxTicks == 2

GraphAssets == {"a", "b", "c", "d"}
\* get_asset(key).dependencies: c is downstream of a, d of b and c
Dependencies == [a |-> {}, b |-> {}, c |-> {"a"}, d |-> {"b", "c"}]

RECURSIVE Ancestors(_)
Ancestors(asset) ==
    Dependencies[asset] \cup UNION {Ancestors(u) : u \in Dependencies[asset]}

\* the cursor of an asset no tick has evaluated
NoCursor == [tick |-> 0, outcome |-> FALSE]

\* faulty variant of ConditionHolds: once an evaluation has raised in the
\* tick, no condition holds any more
condition_after_error(asset, requests) ==
    /\ errored = {}
    /\ (asset \notin snapshot \/ \E u \in Dependencies[asset] : u \in requests)

\* sections 4.2, 4.3: Missing OR ANY-DEPS(WillBeRequested), against the
\* snapshot and the requests made earlier in the tick
ConditionHolds(asset, requests) ==
    asset \notin snapshot \/ \E u \in Dependencies[asset] : u \in requests

\* section 4.4: upstream before downstream
Ready(asset) ==
    /\ asset \notin evaluated \cup errored
    /\ Dependencies[asset] \subseteq evaluated \cup errored

TickDone == evaluated \cup errored = GraphAssets

notEvalVars == <<daemonVars, freshVars, metaVars, laterVars>>

\* section 4.4, steps 1 to 4, for one asset
EvaluateAsset ==
    \E asset \in GraphAssets :
        /\ ticks <= MaxTicks
        /\ Ready(asset)
        /\ LET outcome == ConditionHolds(asset, request_set)
           IN /\ request_set' = IF outcome THEN request_set \cup {asset} ELSE request_set
              /\ eval_cursor' = [eval_cursor EXCEPT ![asset] = [tick |-> ticks, outcome |-> outcome]]
        /\ evaluated' = evaluated \cup {asset}
        /\ UNCHANGED <<snapshot, errored, ticks>>
        /\ UNCHANGED notEvalVars

\* section 4.4, failure semantics: the exception is caught and the asset is
\* skipped for the tick
EvaluationError ==
    \E asset \in GraphAssets :
        /\ ticks <= MaxTicks
        /\ Ready(asset)
        /\ errored' = errored \cup {asset}
        /\ UNCHANGED <<snapshot, eval_cursor, request_set, evaluated, ticks>>
        /\ UNCHANGED notEvalVars

\* the tick ends; some of the requested assets are materialized before the next
EndTick ==
    /\ TickDone
    /\ ticks < MaxTicks
    /\ ticks' = ticks + 1
    /\ \E done \in SUBSET request_set : snapshot' = snapshot \cup done
    /\ request_set' = {}
    /\ evaluated' = {}
    /\ errored' = {}
    /\ UNCHANGED eval_cursor
    /\ UNCHANGED notEvalVars

EvaluatorInit ==
    /\ DaemonInit
    /\ FreshnessAtRest
    /\ MetadataAtRest
    /\ LaterAtRest
    /\ snapshot \in SUBSET GraphAssets
    /\ eval_cursor = [asset \in GraphAssets |-> NoCursor]
    /\ request_set = {}
    /\ evaluated = {}
    /\ errored = {}
    /\ ticks = 1

EvaluatorNext == EvaluateAsset \/ EvaluationError \/ EndTick

EvaluatorSpec == EvaluatorInit /\ [][EvaluatorNext]_vars

\* ------------------------------------------------------------- properties
\* the outcome of an asset in a tick in which no evaluation raises
RECURSIVE Undisturbed(_)
Undisturbed(asset) ==
    asset \notin snapshot \/ \E u \in Dependencies[asset] : Undisturbed(u)

\* C20: an asset whose evaluation raised keeps its cursor and is not in the
\* request set; and when the tick is done, every asset that did not raise and
\* is not downstream of one that raised has been evaluated, with the outcome
\* (request and cursor) of a tick in which nothing raises.
C20_EvaluationErrorIsolated ==
    /\ [][\A asset \in GraphAssets :
            asset \in errored' => /\ eval_cursor'[asset] = eval_cursor[asset]
                                  /\ asset \notin request_set']_vars
    /\ [](TickDone =>
            \A asset \in GraphAssets \ errored :
                Ancestors(asset) \cap errored = {}
                    => /\ asset \in evaluated
                       /\ asset \in request_set <=> Undisturbed(asset)
                       /\ eval_cursor[asset] = [tick |-> ticks, outcome |-> Undisturbed(asset)])

\* C20 witness: in the second tick the evaluation of a raised, a keeps the
\* cursor of the first tick, and b, independent of a, is requested.
C20_Witness ==
    /\ TickDone
    /\ ticks = MaxTicks
    /\ "a" \in errored
    /\ eval_cursor["a"].tick = 1
    /\ "b" \in request_set

\* ========================================================================
\* Condition trees (sections 4.2 and 4.3 of the specification): primitives
\* and the combinators AND, OR, NOT, ALL-DEPS, ANY-DEPS.  The classes that
\* declarative_scheduling/__init__.py re-exports are not part of the sources
\* at hand.  A tree is [op, children]; every asset has one partition, which
\* maps to the partition of each of its dependencies.
\* ========================================================================

\* children of an AND / OR
MaxChildren == 3

Missing == [op |-> "Missing", children |-> <<>>]
WillBeRequested == [op |-> "WillBeRequested", children |-> <<>>]
\* a primitive whose evaluation raises (the data it needs is not there)
Failing == [op |-> "Failing", children |-> <<>>]
AndOf(children) == [op |-> "And", children |-> children]
OrOf(children) == [op |-> "Or", children |-> children]
NotOf(child) == [op |-> "Not", children |-> <<child>>]
AllDeps(child) == [op |-> "AllDeps", children |-> <<child>>]
AnyDeps(child) == [op |-> "AnyDeps", children |-> <<child>>]

\* the conditions a combinator is given as children
Operands == {Missing, WillBeRequested, Failing,
             NotOf(Failing), AnyDeps(Missing), AllDeps(WillBeRequested)}
ChildLists == UNION {[1..n -> Operands] : n \in 0..MaxChildren}
Combinations == {AndOf(cs) : cs \in ChildLists} \cup {OrOf(cs) : cs \in ChildLists}
Trees == Combinations
            \cup {AllDeps(c) : c \in Operands \cup {AndOf(<<>>), OrOf(<<>>)}}
            \cup {AnyDeps(c) : c \in Operands \cup {AndOf(<<>>), OrOf(<<>>)}}

\* section 4.2: what a primitive returns, or that it raised
primitive(op, asset) ==
    CASE op = "Missing" -> [value |-> asset \notin snapshot, raised |-> FALSE]
      [] op = "WillBeRequested" -> [value |-> asset \in request_set, raised |-> FALSE]
      [] OTHER -> [value |-> TRUE, raised |-> TRUE]

\* faulty variant of short_circuits: the first child decides
first_child_decides(op, value) == TRUE

\* section 4.3: the value of this child decides the AND / OR, the children
\* after it are not evaluated
short_circuits(op, value) == (op = "And" /\ ~value) \/ (op = "Or" /\ value)

\* faulty variant of combine: no dependency, no result
combine_some(op, values) ==
    /\ values # {}
    /\ IF op = "AllDeps" THEN \A v \in values : v ELSE \E v \in values : v

\* section 4.3: ALL-DEPS combines with AND, ANY-DEPS with OR
combine(op, values) ==
    IF op = "AllDeps" THEN \A v \in values : v ELSE \E v \in values : v

\* sections 4.2, 4.3: the truth value of a tree for an asset; AND / OR go
\* through their children from the left; an error of a primitive is caught
\* and counts as false
RECURSIVE evaluate(_, _)
evaluate(cond, asset) ==
    CASE cond.op \in {"And", "Or"} ->
            IF cond.children = <<>> THEN cond.op = "And"
            ELSE LET value == evaluate(Head(cond.children), asset)
                 IN IF short_circuits(cond.op, value) THEN value
                    ELSE evaluate([cond EXCEPT !.children = Tail(@)], asset)
      [] cond.op = "Not" -> ~evaluate(cond.children[1], asset)
      [] cond.op \in {"AllDeps", "AnyDeps"} ->
            combine(cond.op, {evaluate(cond.children[1], u) : u \in Dependencies[asset]})
      [] OTHER ->
            LET result == primitive(cond.op, asset)
            IN IF result.raised THEN FALSE ELSE result.value

notCondVars == <<daemonVars, freshVars, metaVars, evalVars, cacheVars, linkVars, tableVars, nopeVars>>

\* a tree is constructed for an asset
Construct ==
    \E tree \in Trees, asset \in GraphAssets :
        /\ condition = NoCondition
        /\ condition' = tree
        /\ target' = asset
        /\ UNCHANGED truth
        /\ UNCHANGED notCondVars

\* the tree is evaluated against the snapshot
EvaluateCondition ==
    /\ condition # NoCondition
    /\ truth = <<>>
    /\ truth' = <<evaluate(condition, target)>>
    /\ UNCHANGED <<condition, target>>
    /\ UNCHANGED notCondVars

ConditionInit ==
    /\ DaemonInit
    /\ FreshnessAtRest
    /\ MetadataAtRest
    /\ snapshot \in SUBSET GraphAssets
    /\ request_set \in SUBSET {"a", "b"}
    /\ eval_cursor = <<>>
    /\ evaluated = {}
    /\ errored = {}
    /\ ticks = 0
    /\ ConditionAtRest
    /\ CacheAtRest
    /\ LinksAtRest
    /\ TableAtRest
    /\ NopeAtRest

ConditionNext == Construct \/ EvaluateCondition

ConditionSpec == ConditionInit /\ [][ConditionNext]_vars

\* ------------------------------------------------------------- properties
\* C21: for an asset without dependencies, ALL-DEPS of the child is true and
\* ANY-DEPS of the child is false, whatever the child and the snapshot.
C21_NoDependencies ==
    (truth # <<>> /\ Dependencies[target] = {})
        => /\ condition.op = "AllDeps" => truth[1]
           /\ condition.op = "AnyDeps" => ~truth[1]
           /\ \A child \in Operands \cup {condition} :
                /\ evaluate(AllDeps(child), target)
                /\ ~evaluate(AnyDeps(child), target)

\* C21 witness: ALL-DEPS of a child that is false for the asset itself has
\* been evaluated to true for an asset without dependencies.
C21_Witness ==
    /\ truth = <<TRUE>>
    /\ Dependencies[target] = {}
    /\ condition = AllDeps(Missing)
    /\ ~evaluate(Missing, target)

\* the children with those from position i to position j made one child
Regrouped(cond, i, j) ==
    [cond EXCEPT !.children =
        SubSeq(@, 1, i - 1)
            \o <<[op |-> cond.op, children |-> SubSeq(@, i, j)]>>
            \o SubSeq(@, j + 1, Len(@))]

\* C22: the truth value of an AND / OR is that of every permutation of its
\* children and of every regrouping of them, a child that raises counting as
\* false.
C22_OrderIndependent ==
    (truth # <<>> /\ condition.op \in {"And", "Or"})
        => LET n == Len(condition.children)
           IN /\ \A perm \in Permutations(1..n) :
                    evaluate([condition EXCEPT !.children = [i \in 1..n |-> @[perm[i]]]], target)
                        = truth[1]
              /\ \A i \in 1..n : \A j \in i..n :
                    evaluate(Regrouped(condition, i, j), target) = truth[1]
              /\ \A i \in 1..(n + 1) :
                    evaluate(Regrouped(condition, i, i - 1), target) = truth[1]

\* C22 witness: an OR whose first child raises and whose last child is true
\* has been evaluated to true.
C22_Witness ==
    /\ truth = <<TRUE>>
    /\ condition.op = "Or"
    /\ Len(condition.children) = MaxChildren
    /\ condition.children[1] = Failing
    /\ evaluate(condition.children[MaxChildren], target)
    /\ ~evaluate(condition.children[2], target)

\* ========================================================================
\* cached_method on a DagsterModel, as test_cached_method uses it
\* (test_dagster_model.py, lines 69-85).  dagster._utils.cached_method and
\* DagsterModel are imported by the test and are not part of the sources at
\* hand: the decorator is modelled as a per-instance cache held in a private
\* attribute, which is what the test asserts of it.  An object is an identity
\* and a value: `is` compares identities.
\* ========================================================================

\* calls made, over a whole behaviour
MaxCalls == 3

\* line 71: the fields of CoolModel; lines 81: the instances made
ModelFields == {"name"}
Names == {"bob", "alice"}
\* lines 73-79
CachedMethods == {"calculate", "reticulate"}
Arguments == {4, 5}

CACHED_METHOD_CACHE_FIELD == "_cached_method_cache__internal__"

\* lines 75, 79: return {self.name: n}, a new dict each time the body runs
method_body(self_name, n, identity) == [id |-> identity, value |-> (self_name :> n)]

\* the cache of an instance: what its private attribute holds, empty before it is set
cache_of(instance) ==
    IF CACHED_METHOD_CACHE_FIELD \in DOMAIN instance
    THEN instance[CACHED_METHOD_CACHE_FIELD]
    ELSE <<>>

\* faulty variant of cache_key: one cache entry per argument list, whatever the method
key_of_arguments(method, n) == <<"", n>>

\* the key of a call in the cache of the instance
cache_key(method, n) == <<method, n>>

\* faulty variant of dict_of: every attribute of the instance
dict_of_attributes(instance) == instance

\* m.dict(): the fields of the model
dict_of(instance) == [f \in ModelFields |-> instance[f]]

notCacheVars == <<daemonVars, freshVars, metaVars, evalVars, condVars, linkVars, tableVars, nopeVars>>

\* lines 81-83: a call of a cached method on an instance; the body runs only
\* when the cache of the instance has no entry for the call
Call ==
    \E m \in Names, method \in CachedMethods, n \in Arguments :
        /\ Len(calls) < MaxCalls
        /\ LET cache == cache_of(attrs[m])
               key == cache_key(method, n)
               hit == key \in DOMAIN cache
               result == IF hit THEN cache[key]
                         ELSE method_body(attrs[m]["name"], n, allocated + 1)
           IN /\ attrs' = [attrs EXCEPT ![m] =
                              (CACHED_METHOD_CACHE_FIELD :> ((key :> result) @@ cache)) @@ @]
              /\ allocated' = IF hit THEN allocated ELSE allocated + 1
              /\ calls' = Append(calls, [self |-> m, method |-> method, n |-> n,
                                         returned |-> result, computed |-> ~hit])
        /\ UNCHANGED dumped
        /\ UNCHANGED notCacheVars

\* line 85: m.dict()
Dump ==
    \E m \in Names :
        /\ dumped' = <<dict_of(attrs[m])>>
        /\ dumped' # dumped
        /\ UNCHANGED <<attrs, allocated, calls>>
        /\ UNCHANGED notCacheVars

CacheInit ==
    /\ DaemonInit
    /\ FreshnessAtRest
    /\ MetadataAtRest
    /\ EvaluatorAtRest
    /\ ConditionAtRest
    /\ LinksAtRest
    /\ TableAtRest
    /\ NopeAtRest
    /\ attrs = [m \in Names |-> ("name" :> m)]
    /\ allocated = 0
    /\ calls = <<>>
    /\ dumped = <<>>

CacheNext == Call \/ Dump

CacheSpec == CacheInit /\ [][CacheNext]_vars

MaxDefs == 2

\* line 30
DEFAULT_SOURCE_FILE_KEY == "asset_definition"
\* lines 86-90 and metadata_set.py line 68
SOURCE_CODE_LOCATIONS_KEY == "dagster/source_code_locations"

NoSource == ""
\* where the compute function of every definition is defined, and another place
InferredSource == "/repo/assets.py:3"
OtherSource == "/repo/elsewhere.py:9"

\* the empty dictionary
Empty == [x \in {} |-> x]

\* SouceCodeLocationsMetadataValue(sources=...)
Locations(sources) == [kind |-> "locations", sources |-> sources]
\* a metadata value of another type
Text == [kind |-> "text", sources |-> Empty]

\* the sources dictionaries of an existing entry
ExistingSources ==
    {d @@ o : d \in {Empty, DEFAULT_SOURCE_FILE_KEY :> InferredSource,
                     DEFAULT_SOURCE_FILE_KEY :> OtherSource},
              o \in {Empty, "docs" :> OtherSource}}

\* the metadata of an asset key
KeyMetadata ==
    {own @@ src : own \in {Empty, "owner" :> Text},
                  src \in {Empty, SOURCE_CODE_LOCATIONS_KEY :> Text}
                            \cup {SOURCE_CODE_LOCATIONS_KEY :> Locations(e) : e \in ExistingSources}}

\* the metadata of the second key of a definition with two keys
SecondKeyMetadata ==
    {"owner" :> Text, SOURCE_CODE_LOCATIONS_KEY :> Locations("docs" :> OtherSource)}

\* the compute functions: decorated or not, with a source file or built in
ComputeFns == {[decorated |-> TRUE, fn |-> "python"], [decorated |-> FALSE, fn |-> "python"],
               [decorated |-> FALSE, fn |-> "builtin"]}

SourceAssets == {[kind |-> "SourceAsset", keys |-> {"k1"}, metadata_by_key |-> by_key,
                  compute_fn |-> [decorated |-> FALSE, fn |-> ""]]
                    : by_key \in {Empty, "k1" :> ("owner" :> Text)}}

AssetsDefinitions ==
    {[kind |-> "AssetsDefinition", keys |-> {"k1"}, metadata_by_key |-> by_key, compute_fn |-> f]
        : by_key \in {Empty} \cup {"k1" :> md : md \in KeyMetadata}, f \in ComputeFns}
    \cup
    {[kind |-> "AssetsDefinition", keys |-> {"k1", "k2"}, metadata_by_key |-> first @@ second,
      compute_fn |-> f]
        : first \in {Empty} \cup {"k1" :> md : md \in KeyMetadata},
          second \in {Empty} \cup {"k2" :> md : md \in SecondKeyMetadata},
          f \in ComputeFns}

Definitions == SourceAssets \cup AssetsDefinitions

\* lines 107-111
base_fn(assets_def) == assets_def.compute_fn.fn

\* lines 64-78: inspect has no source file for a built-in
source_path_from_fn(fn) == IF fn = "builtin" THEN NoSource ELSE InferredSource

\* dict.get(key, {})
get(dictionary, key) == IF key \in DOMAIN dictionary THEN dictionary[key] ELSE Empty

\* lines 121-123, 128: extract raises a ValidationError unless the metadata
\* has the source code locations entry, with a value of that type
extract_validates(key_metadata) ==
    /\ SOURCE_CODE_LOCATIONS_KEY \in DOMAIN key_metadata
    /\ key_metadata[SOURCE_CODE_LOCATIONS_KEY].kind = "locations"

\* faulty variant of sources_for_asset: the inferred source wins
inferred_source_wins(sources, key_metadata) ==
    IF extract_validates(key_metadata)
    THEN sources @@ key_metadata[SOURCE_CODE_LOCATIONS_KEY].sources
    ELSE sources

\* lines 119-129
sources_for_asset(sources, key_metadata) ==
    IF extract_validates(key_metadata)
    THEN key_metadata[SOURCE_CODE_LOCATIONS_KEY].sources @@ sources
    ELSE sources

\* lines 93-138
with_code_source_single_definition(assets_def) ==
    IF assets_def.kind # "AssetsDefinition" THEN assets_def
    ELSE LET source_path == source_path_from_fn(base_fn(assets_def))
             sources == DEFAULT_SOURCE_FILE_KEY :> source_path
             entry(key) ==
                 (SOURCE_CODE_LOCATIONS_KEY :>
                     Locations(sources_for_asset(sources, get(assets_def.metadata_by_key, key))))
                 @@ get(assets_def.metadata_by_key, key)
             metadata_by_key ==
                 IF source_path # NoSource
                 THEN [key \in assets_def.keys |-> entry(key)] @@ assets_def.metadata_by_key
                 ELSE assets_def.metadata_by_key
         IN [assets_def EXCEPT !.metadata_by_key = metadata_by_key]

\* line 154
with_source_code_links(defs) ==
    [i \in DOMAIN defs |-> with_code_source_single_definition(defs[i])]

notLinkVars == <<daemonVars, freshVars, metaVars, evalVars, condVars, cacheVars, tableVars, nopeVars>>

\* with_source_code_links(assets_defs)
Link ==
    /\ linked = <<>>
    /\ linked' = <<with_source_code_links(assets_defs)>>
    /\ UNCHANGED <<assets_defs, relinked>>
    /\ UNCHANGED notLinkVars

\* with_source_code_links, given what it returned
LinkAgain ==
    /\ linked # <<>>
    /\ relinked = <<>>
    /\ relinked' = <<with_source_code_links(linked[1])>>
    /\ UNCHANGED <<assets_defs, linked>>
    /\ UNCHANGED notLinkVars

LinksInit ==
    /\ DaemonInit
    /\ FreshnessAtRest
    /\ MetadataAtRest
    /\ EvaluatorAtRest
    /\ ConditionAtRest
    /\ CacheAtRest
    /\ TableAtRest
    /\ NopeAtRest
    /\ assets_defs \in UNION {[1..n -> Definitions] : n \in 1..MaxDefs}
    /\ linked = <<>>
    /\ relinked = <<>>

LinksNext == Link \/ LinkAgain

LinksSpec == LinksInit /\ [][LinksNext]_vars

\* ------------------------------------------------------------- properties
\* the definition has an inferred source
HasInferredSource(assets_def) ==
    assets_def.kind = "AssetsDefinition" /\ assets_def.compute_fn.fn # "builtin"

\* C28: what is not an AssetsDefinition is returned as it was; for each key of
\* an AssetsDefinition with an inferred source, the resulting sources have
\* the labels of the existing sources and the default label, each existing
\* label with its existing source and the default label otherwise with the
\* inferred source, and every other entry of the key is as it was; an
\* AssetsDefinition without an inferred source keeps its metadata; and the
\* function applied to its result returns that result.
C28_KeepsExistingData ==
    /\ linked # <<>> =>
        \A i \in DOMAIN assets_defs :
            LET before == assets_defs[i]
                after == linked[1][i]
            IN /\ before.kind # "AssetsDefinition" => after = before
               /\ HasInferredSource(before) =>
                    \A key \in before.keys :
                        LET old == get(before.metadata_by_key, key)
                            new == after.metadata_by_key[key]
                            existing == IF extract_validates(old)
                                        THEN old[SOURCE_CODE_LOCATIONS_KEY].sources ELSE Empty
                            sources == new[SOURCE_CODE_LOCATIONS_KEY].sources
                        IN /\ DOMAIN sources = DOMAIN existing \cup {DEFAULT_SOURCE_FILE_KEY}
                           /\ \A label \in DOMAIN existing : sources[label] = existing[label]
                           /\ DEFAULT_SOURCE_FILE_KEY \notin DOMAIN existing
                                => sources[DEFAULT_SOURCE_FILE_KEY] = InferredSource
                           /\ DOMAIN new = DOMAIN old \cup {SOURCE_CODE_LOCATIONS_KEY}
                           /\ \A k \in DOMAIN old \ {SOURCE_CODE_LOCATIONS_KEY} : new[k] = old[k]
               /\ (before.kind = "AssetsDefinition" /\ ~HasInferredSource(before))
                    => after = before
               /\ after.keys = before.keys
               /\ after.compute_fn = before.compute_fn
    /\ relinked # <<>> => relinked = linked

\* C28 witness: a definition whose key has another entry and existing sources
\* with the default label has been linked twice, and kept its own default
\* source.
C28_Witness ==
    /\ relinked # <<>>
    /\ \E i \in DOMAIN assets_defs :
        /\ HasInferredSource(assets_defs[i])
        /\ "k1" \in DOMAIN assets_defs[i].metadata_by_key
        /\ "owner" \in DOMAIN assets_defs[i].metadata_by_key["k1"]
        /\ extract_validates(assets_defs[i].metadata_by_key["k1"])
        /\ relinked[1][i].metadata_by_key["k1"][SOURCE_CODE_LOCATIONS_KEY].sources
              = (DEFAULT_SOURCE_FILE_KEY :> OtherSource) @@ ("docs" :> OtherSource)

\* ========================================================================
\* TableMetadataValue.__init__ and infer_column_type of
\* metadata/metadata_value.py (lines 857-889).  A value is the Python type it
\* has; the data of a TableRecord is a function from field names to values; a
\* TableSchema is the set of its columns.
\* ========================================================================

\* records in one call
MaxRows == 2

\* the Python types of the values of a record; bool is a subclass of int
PyTypes == {"bool", "int", "float", "str"}
Bases(py) == IF py = "bool" THEN {"bool", "int", "object"} ELSE {py, "object"}
isinstance(value, cls) == cls \in Bases(value)

ColumnNames == {"c1", "c2"}
TableRecords == UNION {[cols -> PyTypes] : cols \in SUBSET ColumnNames}
GivenSchema == {[name |-> "c1", type |-> "string"]}

\* faulty variant of infer_column_type: int is tested before bool
infer_int_first(value) ==
    IF isinstance(value, "int") THEN "int"
    ELSE IF isinstance(value, "bool") THEN "bool"
    ELSE IF isinstance(value, "float") THEN "float"
    ELSE "string"

\* lines 859-868
infer_column_type(value) ==
    IF isinstance(value, "bool") THEN "bool"
    ELSE IF isinstance(value, "int") THEN "int"
    ELSE IF isinstance(value, "float") THEN "float"
    ELSE "string"

Constructed(rows, schema) == [error |-> "", records |-> rows, schema |-> schema]
Failed(message) == [error |-> message, records |-> <<>>, schema |-> NoSchema]

\* lines 870-889
table_init(rows, schema) ==
    IF Len(rows) = 0
    THEN IF schema = NoSchema THEN Failed("schema must be provided if records is empty")
         ELSE Constructed(rows, schema)
    ELSE LET columns == DOMAIN rows[1]
         IN IF \E i \in 2..Len(rows) : DOMAIN rows[i] # columns
            THEN Failed("All records must have the same fields")
            ELSE Constructed(rows,
                    IF schema # NoSchema THEN schema
                    ELSE {[name |-> k, type |-> infer_column_type(rows[1][k])] : k \in columns})

notTableVars == <<daemonVars, freshVars, metaVars, evalVars, condVars, cacheVars, linkVars, nopeVars>>

\* TableMetadataValue(records, schema)
ConstructTable ==
    /\ table = <<>>
    /\ table' = <<table_init(table_records, table_schema)>>
    /\ UNCHANGED <<table_records, table_schema>>
    /\ UNCHANGED notTableVars

TableInit ==
    /\ DaemonInit
    /\ FreshnessAtRest
    /\ MetadataAtRest
    /\ EvaluatorAtRest
    /\ ConditionAtRest
    /\ CacheAtRest
    /\ LinksAtRest
    /\ NopeAtRest
    /\ table_records \in UNION {[1..n -> TableRecords] : n \in 0..MaxRows}
    /\ table_schema \in {NoSchema, GivenSchema}
    /\ table = <<>>

TableNext == ConstructTable

TableSpec == TableInit /\ [][TableNext]_vars

\* ------------------------------------------------------------- properties
\* the column type of a value of each Python type
ColumnTypeOf(py) ==
    CASE py = "bool" -> "bool" [] py = "int" -> "int" [] py = "float" -> "float"
      [] OTHER -> "string"

\* C29: a constructed value has a schema, the records it was given, and
\* records with one set of field names; the construction fails when two
\* records differ in their field names, and when there is no record and no
\* schema; a schema that is given is kept, and one that is not has one
\* column for each field of the first record, of the type of its value, a
\* bool being 'bool'.
C29_TableHasSchemaAndUniformRecords ==
    table # <<>> =>
        LET n == Len(table_records)
        IN /\ table[1].error = "" =>
                /\ table[1].schema # NoSchema
                /\ table[1].records = table_records
                /\ \A i, j \in 1..n : DOMAIN table_records[i] = DOMAIN table_records[j]
                /\ table_schema # NoSchema => table[1].schema = table_schema
                /\ (table_schema = NoSchema /\ n > 0) =>
                      table[1].schema =
                          {[name |-> k, type |-> ColumnTypeOf(table_records[1][k])]
                              : k \in DOMAIN table_records[1]}
           /\ (\E i, j \in 1..n : DOMAIN table_records[i] # DOMAIN table_records[j])
                => table[1].error # ""
           /\ (n = 0 /\ table_schema = NoSchema) => table[1].error # ""

\* C29 witness: a value was constructed from two records and no schema, and
\* its schema has a column of type bool.
C29_Witness ==
    /\ table # <<>>
    /\ table[1].error = ""
    /\ table_schema = NoSchema
    /\ Len(table_records) = MaxRows
    /\ \E column \in table[1].schema : column.type = "bool"

\* ========================================================================
\* NopeProject.make_assets_defs and make_assets_def of _nope/project.py
\* (lines 299-374).  A file name is the sequence of its pieces, the piece "."
\* among them, so that Path.suffix and Path.stem are computed.  A manifest
\* is what its yaml file says of the target.
\* ========================================================================

\* group directories under defs_path
MaxGroups == 2

Dot == "."
PySuffix == <<Dot, "py">>
YamlSuffix == <<Dot, "yaml">>
Stems == {<<"a">>, <<"b">>}
ManifestNames == {stem_name \o YamlSuffix : stem_name \in Stems} \cup {<<"a", Dot, "yml">>}
FileNames == {stem_name \o PySuffix : stem_name \in Stems} \cup ManifestNames \cup {PySuffix}

\* what a manifest file has under its top-level target key
NoTarget == "no target key"
ManifestContents == {NoTarget, "subprocess", "modal"}

\* the group directories: their files, and the content of their manifests
GroupNames == {"g" \o ToString(i) : i \in 1..MaxGroups}
GroupFolders(group_name) ==
    IF group_name = "g1"
    THEN {[name |-> group_name, is_dir |-> TRUE, files |-> files,
           manifests |-> [f \in ManifestNames |->
                             IF f = <<"a">> \o YamlSuffix THEN first
                             ELSE IF f = <<"b">> \o YamlSuffix THEN second ELSE "subprocess"]]
            : files \in SUBSET FileNames, first \in ManifestContents, second \in ManifestContents}
    ELSE {[name |-> group_name, is_dir |-> TRUE, files |-> files,
           manifests |-> [f \in ManifestNames |-> "subprocess"]]
            : files \in {{<<"a">> \o PySuffix, <<"a">> \o YamlSuffix}, {<<"a">> \o PySuffix}}}
\* an entry of defs_path that is not a directory
PlainFile == [name |-> "README", is_dir |-> FALSE, files |-> {},
              manifests |-> [f \in ManifestNames |-> NoTarget]]

\* str.rfind("."), counted from 1: 0 when there is no dot
LastDot(name) ==
    IF \E i \in DOMAIN name : name[i] = Dot
    THEN CHOOSE i \in DOMAIN name : name[i] = Dot /\ \A j \in DOMAIN name : name[j] = Dot => j <= i
    ELSE 0

\* Path.suffix and Path.stem (lines 316-319): a leading or a trailing dot
\* starts no suffix
suffix(name) ==
    IF 1 < LastDot(name) /\ LastDot(name) < Len(name)
    THEN SubSeq(name, LastDot(name), Len(name)) ELSE <<>>
stem(name) ==
    IF 1 < LastDot(name) /\ LastDot(name) < Len(name)
    THEN SubSeq(name, 1, LastDot(name) - 1) ELSE name

\* faulty variant of is_yaml: .yml is taken for a manifest too
is_yaml_or_yml(full_path) == suffix(full_path) \in {YamlSuffix, <<Dot, "yml">>}

\* line 316
is_yaml(full_path) == suffix(full_path) = YamlSuffix

\* lines 313-319: the files of a group folder by stem
yaml_files(folder) ==
    [s \in {stem(f) : f \in {g \in folder.files : is_yaml(g)}}
        |-> CHOOSE f \in folder.files : is_yaml(f) /\ stem(f) = s]
python_files(folder) ==
    [s \in {stem(f) : f \in {g \in folder.files : ~is_yaml(g) /\ suffix(g) = PySuffix}}
        |-> CHOOSE f \in folder.files : suffix(f) = PySuffix /\ stem(f) = s]

\* lines 301-304
map_manifest_to_target_class(target_type) ==
    IF target_type = "subprocess" THEN "NopeSubprocessInvocationTarget" ELSE "NotImplementedError"

\* lines 352-374
make_assets_def(folder, full_python_path, full_yaml_path) ==
    LET full_manifest == folder.manifests[full_yaml_path]
        result(error) == [error |-> error, group_name |-> folder.name,
                          full_python_path |-> full_python_path,
                          full_yaml_path |-> full_yaml_path]
    IN IF full_manifest = NoTarget THEN result("Must have top-level target key")
       ELSE IF map_manifest_to_target_class(full_manifest) = "NotImplementedError"
            THEN result("NotImplementedError")
            ELSE result("")

\* lines 321-328, for the stems of one folder in some order
RECURSIVE defs_of_stems(_, _)
defs_of_stems(folder, stems) ==
    IF stems = {} THEN <<>>
    ELSE LET stem_name == CHOOSE st \in stems : TRUE
         IN <<make_assets_def(folder, python_files(folder)[stem_name],
                              yaml_files(folder)[stem_name])>>
                \o defs_of_stems(folder, stems \ {stem_name})

\* lines 308-328, for the entries of defs_path in some order
RECURSIVE defs_of_entries(_)
defs_of_entries(entries) ==
    IF entries = {} THEN <<>>
    ELSE LET group_folder == CHOOSE e \in entries : TRUE
         IN (IF ~group_folder.is_dir THEN <<>>
             ELSE defs_of_stems(group_folder,
                      DOMAIN python_files(group_folder) \cap DOMAIN yaml_files(group_folder)))
                \o defs_of_entries(entries \ {group_folder})

\* what defs_path.iterdir() can list: of each group directory, one state or none
RECURSIVE Listings(_)
Listings(names) ==
    IF names = {} THEN {{}}
    ELSE LET group_name == CHOOSE g \in names : TRUE
         IN {rest \cup one : rest \in Listings(names \ {group_name}),
                             one \in {{}} \cup {{f} : f \in GroupFolders(group_name)}}

notNopeVars == <<daemonVars, freshVars, metaVars, evalVars, condVars, cacheVars, linkVars,
                 tableVars>>

\* lines 306-330: the call returns the definitions made, or raises the error
\* of the first definition that cannot be made, in the order the directories
\* happen to be listed in
MakeAssetsDefs ==
    /\ made = <<>>
    /\ LET assets_defs_made == defs_of_entries(defs_path)
           failing == {i \in DOMAIN assets_defs_made : assets_defs_made[i].error # ""}
       IN IF failing = {}
          THEN made' = <<[error |-> "", assets_defs |-> assets_defs_made]>>
          ELSE \E i \in failing :
                  made' = <<[error |-> assets_defs_made[i].error, assets_defs |-> <<>>]>>
    /\ UNCHANGED defs_path
    /\ UNCHANGED notNopeVars

NopeInit ==
    /\ DaemonInit
    /\ FreshnessAtRest
    /\ MetadataAtRest
    /\ EvaluatorAtRest
    /\ ConditionAtRest
    /\ CacheAtRest
    /\ LinksAtRest
    /\ TableAtRest
    /\ defs_path \in {listed \cup plain : listed \in Listings(GroupNames), plain \in SUBSET {PlainFile}}
    /\ made = <<>>

NopeNext == MakeAssetsDefs

NopeSpec == NopeInit /\ [][NopeNext]_vars

\* ------------------------------------------------------------- properties
\* <stem>.py and <stem>.yaml are both in the directory
Paired(entry, stem_name) ==
    /\ entry.is_dir
    /\ stem_name \o PySuffix \in entry.files
    /\ stem_name \o YamlSuffix \in entry.files

\* the manifest of some pair has this under target
SomePairHas(contents) ==
    \E entry \in defs_path, stem_name \in Stems :
        Paired(entry, stem_name) /\ entry.manifests[stem_name \o YamlSuffix] \in contents

\* the definitions returned are one for each pair, and nothing else
OneForEachPair ==
    /\ made[1].error = ""
    /\ \A entry \in defs_path, stem_name \in Stems :
          Paired(entry, stem_name) =>
              Cardinality({i \in DOMAIN made[1].assets_defs :
                              /\ made[1].assets_defs[i].group_name = entry.name
                              /\ made[1].assets_defs[i].full_python_path = stem_name \o PySuffix
                              /\ made[1].assets_defs[i].full_yaml_path = stem_name \o YamlSuffix}) = 1
    /\ \A i \in DOMAIN made[1].assets_defs :
          \E entry \in defs_path, stem_name \in Stems :
              /\ Paired(entry, stem_name)
              /\ made[1].assets_defs[i].group_name = entry.name
              /\ made[1].assets_defs[i].full_python_path = stem_name \o PySuffix
              /\ made[1].assets_defs[i].full_yaml_path = stem_name \o YamlSuffix

\* C30 (as claimed): the call fails when a paired manifest has no target key,
\* and otherwise returns one definition for each pair and nothing else.
C30_OneDefinitionPerPair ==
    made # <<>> =>
        IF SomePairHas({NoTarget}) THEN made[1].error # "" ELSE OneForEachPair

\* C30 (amended): the call fails when a paired manifest has no target key or
\* a target type the class does not support, and otherwise returns one
\* definition for each pair and nothing else.
C30_OneDefinitionPerSupportedPair ==
    made # <<>> =>
        IF SomePairHas({NoTarget, "modal"}) THEN made[1].error # "" ELSE OneForEachPair

\* C30 witness: three definitions were returned, for the two pairs of one
\* group directory and the pair of the other, from a defs_path that also has
\* a plain file and a group directory with files without a counterpart.
C30_Witness ==
    /\ made # <<>>
    /\ made[1].error = ""
    /\ Len(made[1].assets_defs) = 3
    /\ PlainFile \in defs_path
    /\ \E entry \in defs_path : {<<"a", Dot, "yml">>, PySuffix} \subseteq entry.files

====
